---- MODULE Spec2Model ----
(***************************************************************************)
(* Entity cache, reference resolver and reference renderer of              *)
(* math_database (src/load_utils.py, src/render_utils.py).                 *)
(*                                                                         *)
(* Python values are records [k, i, s]: k is the Python type, i the int    *)
(* value, s the text of a str as a sequence of tokens.  A token is one of  *)
(* the separators "#", "/", "?" or a maximal run of other characters, so   *)
(* two strs are equal exactly when their token sequences are equal.        *)
(* A dict key that is absent and a key bound to None are both PyNone.      *)
(***************************************************************************)
EXTENDS Integers, Sequences, FiniteSets, TLC

VARIABLES
    cache,        \* TableEntriesCache._cache: insertion-ordered dict, a sequence of [k, v]
    disk,         \* data_dir: table directory -> sequence of files, in glob order
    tables_info,  \* memo of functools.cache on get_table_infos: NotComputed or its keys
    last          \* the last call: [op, arg, ret]

vars == <<cache, disk, tables_info, last>>

(************************* bounds of the model *****************************)
MaxEntries == 2     \* an append needs fewer than MaxEntries cached entities

(***************************** Python values *******************************)
PyNone == [k |-> "none", i |-> 0, s |-> <<>>]
PyInt(n) == [k |-> "int", i |-> n, s |-> <<>>]
PyStr(toks) == [k |-> "str", i |-> 0, s |-> toks]
PyEmptyList == [k |-> "list", i |-> 0, s |-> <<>>]
PyBool(b) == [k |-> "bool", i |-> IF b THEN 1 ELSE 0, s |-> <<>>]

\* bool(v), as used by `or` and `if`
Truthy(v) ==
    CASE v.k = "none" -> FALSE
      [] v.k = "int" -> v.i # 0
      [] v.k = "str" -> v.s # <<>>
      [] v.k = "list" -> FALSE
      [] v.k = "bool" -> v.i # 0
      [] OTHER -> TRUE

\* a or b
PyOr(a, b) == IF Truthy(a) THEN a ELSE b

\* isinstance(v, str)
IsStr(v) == v.k = "str"

\* str.isdigit() on a token sequence: one token made of digits only
DigitWords == {"0", "1", "2", "3", "4", "5", "01", "10"}
IsDigit(toks) == Len(toks) = 1 /\ toks[1] \in DigitWords

\* int(s) for a digit string
IntOf(toks) ==
    CASE toks[1] = "0" -> 0
      [] toks[1] = "1" -> 1
      [] toks[1] = "01" -> 1
      [] toks[1] = "2" -> 2
      [] toks[1] = "3" -> 3
      [] toks[1] = "4" -> 4
      [] toks[1] = "5" -> 5
      [] toks[1] = "10" -> 10

\* str(n) for the ints of the model
StrOf(n) ==
    CASE n = 0 -> "0"
      [] n = 1 -> "1"
      [] n = 2 -> "2"
      [] n = 3 -> "3"
      [] n = 4 -> "4"
      [] n = 5 -> "5"
      [] n = 10 -> "10"

\* the text an f-string puts for {v}
Format(v) ==
    CASE v.k = "none" -> <<"None">>
      [] v.k = "int" -> <<StrOf(v.i)>>
      [] v.k = "str" -> v.s
      [] v.k = "list" -> <<"[]">>
      [] v.k = "bool" -> IF v.i # 0 THEN <<"True">> ELSE <<"False">>

\* s.startswith('#')
StartsWithHash(toks) == Len(toks) > 0 /\ toks[1] = "#"

\* '/' in s
HasSlash(toks) == \E i \in 1..Len(toks) : toks[i] = "/"

\* s.split('/', 1): the text before and after the first '/'
FirstSlash(toks) ==
    CHOOSE i \in 1..Len(toks) : toks[i] = "/" /\ \A j \in 1..(i - 1) : toks[j] # "/"
SplitHead(toks) == SubSeq(toks, 1, FirstSlash(toks) - 1)
SplitTail(toks) == SubSeq(toks, FirstSlash(toks) + 1, Len(toks))

(******************************* entities **********************************)
Ent(id, short_name, name) == [id |-> id, short_name |-> short_name, name |-> name]

Mathematicians == <<"mathematicians">>
Equations == <<"equations">>
NoSuch == <<"nosuch">>
Tables == {Mathematicians, Equations}

\* the entities handed to update, and the keys handed to remove
Ids == {PyInt(0), PyInt(1), PyInt(2)}
ShortNames == {PyNone, PyStr(<<"a">>)}
Entities ==
    {Ent(i, s, PyStr(<<"x">>)) : i \in Ids, s \in ShortNames}
        \cup {Ent(PyInt(1), s, PyStr(<<"y">>)) : s \in ShortNames}
RemoveKeys == Ids \cup {PyStr(<<"a">>)}

(******************************** files *************************************)
\* A *.json file: ok says whether json.load succeeds, entry is the parsed dict.
File(name, ok, entry) == [name |-> name, ok |-> ok, entry |-> entry]
SchemaFile == File("schema.json", TRUE, Ent(PyNone, PyNone, PyNone))
BadFile == File("bad.json", FALSE, Ent(PyNone, PyNone, PyNone))

DiskA ==
    [t \in Tables |->
        IF t = Mathematicians
        THEN <<SchemaFile, File("001_a.json", TRUE, Ent(PyInt(1), PyStr(<<"a">>), PyStr(<<"x">>)))>>
        ELSE <<File("001_a.json", TRUE, Ent(PyInt(1), PyStr(<<"a">>), PyStr(<<"y">>))),
               BadFile, SchemaFile>>]
DiskB ==
    [t \in Tables |->
        IF t = Mathematicians
        THEN <<SchemaFile, File("001_a.json", TRUE, Ent(PyInt(1), PyStr(<<"a">>), PyStr(<<"y">>)))>>
        ELSE <<SchemaFile>>]
Snapshots == {DiskA, DiskB}

\* data directories for the resolver: ids and short_names unique within a table
RefDisk1 ==
    [t \in Tables |->
        IF t = Mathematicians
        THEN <<SchemaFile,
               File("001_a.json", TRUE, Ent(PyInt(1), PyStr(<<"a">>), PyStr(<<"x">>))),
               File("002_1.json", TRUE, Ent(PyInt(2), PyStr(<<"1">>), PyStr(<<"y">>)))>>
        ELSE <<SchemaFile,
               File("001_a.json", TRUE, Ent(PyInt(1), PyStr(<<"a">>), PyStr(<<"y">>))),
               File("002.json", TRUE, Ent(PyInt(2), PyNone, PyStr(<<"x">>)))>>]
RefDisk2 ==
    [t \in Tables |->
        IF t = Mathematicians
        THEN <<File("002_1.json", TRUE, Ent(PyInt(2), PyStr(<<"1">>), PyStr(<<"x">>))),
               File("001_a.json", TRUE, Ent(PyInt(1), PyStr(<<"a">>), PyStr(<<"y">>))),
               SchemaFile>>
        ELSE <<SchemaFile, BadFile,
               File("000_b.json", TRUE, Ent(PyInt(0), PyStr(<<"b">>), PyStr(<<"x">>)))>>]
RefDisk3 ==
    [t \in Tables |->
        IF t = Mathematicians
        THEN <<SchemaFile>>
        ELSE <<File("001_a.json", TRUE, Ent(PyInt(1), PyStr(<<"a">>), PyStr(<<"x">>)))>>]
RefSnapshots == {RefDisk1, RefDisk2, RefDisk3}

NotComputed == <<"<not computed>">>

(********************* TableEntriesCache (load_utils.py) ********************)
\* key in self._cache
InCache(c, t) == \E i \in 1..Len(c) : c[i].k = t
\* self._cache[key]
CacheAt(c, t) == c[CHOOSE i \in 1..Len(c) : c[i].k = t].v
\* (mutant of CachePut) the dict is rebound to the one key: self._cache = {key: v}
CachePutOnly(c, t, v) == <<[k |-> t, v |-> v]>>

\* self._cache[key] = v: a new key goes last, an old key keeps its place
CachePut(c, t, v) ==
    IF InCache(c, t)
    THEN [i \in 1..Len(c) |-> IF c[i].k = t THEN [k |-> t, v |-> v] ELSE c[i]]
    ELSE Append(c, [k |-> t, v |-> v])

\* load_json_file: the parsed dict, or None when open/json.load raises
load_json_file(f) == IF f.ok THEN f.entry ELSE PyNone

\* bool(entry) for what load_json_file returns: None and {} are falsy
EntryTruthy(x) == x # PyNone /\ x # Ent(PyNone, PyNone, PyNone)

\* (mutant of LoadFiles) the first malformed file ends the load
RECURSIVE LoadFilesStop(_, _)
LoadFilesStop(files, i) ==
    IF i > Len(files) THEN <<>>
    ELSE IF files[i].name = "schema.json" THEN LoadFilesStop(files, i + 1)
    ELSE IF ~files[i].ok THEN <<>>
    ELSE IF EntryTruthy(load_json_file(files[i]))
         THEN <<load_json_file(files[i])>> \o LoadFilesStop(files, i + 1)
         ELSE LoadFilesStop(files, i + 1)

\* _load_entries: every *.json of the table directory but schema.json, parsed;
\* a directory that does not exist globs to nothing
RECURSIVE LoadFiles(_, _)
LoadFiles(files, i) ==
    IF i > Len(files) THEN <<>>
    ELSE IF files[i].name = "schema.json" THEN LoadFiles(files, i + 1)
    ELSE IF EntryTruthy(load_json_file(files[i]))
         THEN <<load_json_file(files[i])>> \o LoadFiles(files, i + 1)
         ELSE LoadFiles(files, i + 1)
LoadEntries(d, t) == IF t \in DOMAIN d THEN LoadFiles(d[t], 1) ELSE <<>>

\* (mutant of GetCache) get reads the files on every call
GetCacheReload(c, d, t) == CachePut(c, t, LoadEntries(d, t))

\* get: the cache after the call (the list returned is CacheAt of it)
GetCache(c, d, t) == IF InCache(c, t) THEN c ELSE CachePut(c, t, LoadEntries(d, t))

\* (mutant of RemoveEntries) remove compares the id only
RemoveEntriesIdOnly(entries, entry_id) == SelectSeq(entries, LAMBDA e : e.id # entry_id)

\* remove: the filtered list
RemoveEntries(entries, entry_id) ==
    SelectSeq(entries, LAMBDA e : e.id # entry_id /\ e.short_name # entry_id)

\* update: entry_id is `id or short_name`; the loop replaces at the first match and
\* breaks, and appends when it ran to the end
UpdateKey(entry) == PyOr(entry.id, entry.short_name)
\* (mutant of UpdateLoop) the loop compares the id only
RECURSIVE UpdateLoopIdOnly(_, _, _, _)
UpdateLoopIdOnly(entries, entry, entry_id, i) ==
    IF i > Len(entries) THEN Append(entries, entry)
    ELSE IF entries[i].id = entry_id
         THEN [entries EXCEPT ![i] = entry]
         ELSE UpdateLoopIdOnly(entries, entry, entry_id, i + 1)

RECURSIVE UpdateLoop(_, _, _, _)
UpdateLoop(entries, entry, entry_id, i) ==
    IF i > Len(entries) THEN Append(entries, entry)
    ELSE IF entries[i].id = entry_id \/ entries[i].short_name = entry_id
         THEN [entries EXCEPT ![i] = entry]
         ELSE UpdateLoop(entries, entry, entry_id, i + 1)
UpdateEntries(entries, entry) == UpdateLoop(entries, entry, UpdateKey(entry), 1)

\* number of cached entities, all tables together
RECURSIVE TotalFrom(_, _)
TotalFrom(c, i) == IF i > Len(c) THEN 0 ELSE Len(c[i].v) + TotalFrom(c, i + 1)
Total(c) == TotalFrom(c, 1)

(*********************** reference lookup (load_utils.py) ********************)
\* what lookup gives back: the pair (table, entry), or the exception it raises
Ret(table, entry) == [exc |-> "", table |-> table, entry |-> entry]
RetRaise(exc) == [exc |-> exc, table |-> PyNone, entry |-> PyNone]
NoneNone == Ret(PyNone, PyNone)

\* the inner loop of lookup over one table's entries: the id test is made only for
\* a digit key, the short_name test always
RECURSIVE ScanEntries(_, _, _, _)
ScanEntries(table, entries, id_part, i) ==
    IF i > Len(entries) THEN NoneNone
    ELSE IF IsDigit(id_part) /\ entries[i].id = PyInt(IntOf(id_part))
         THEN Ret(PyStr(table), entries[i])
    ELSE IF entries[i].short_name = PyStr(id_part)
         THEN Ret(PyStr(table), entries[i])
    ELSE ScanEntries(table, entries, id_part, i + 1)

\* (mutant of ScanTables) the last cached table with a match wins
RECURSIVE ScanTablesLast(_, _, _)
ScanTablesLast(c, ref, j) ==
    IF j > Len(c) THEN NoneNone
    ELSE IF ScanTablesLast(c, ref, j + 1) # NoneNone
         THEN ScanTablesLast(c, ref, j + 1)
         ELSE ScanEntries(c[j].k, c[j].v, ref, 1)

\* the outer loop of the bare form, over self._cache.items()
RECURSIVE ScanTables(_, _, _)
ScanTables(c, ref, j) ==
    IF j > Len(c) THEN NoneNone
    ELSE IF ScanEntries(c[j].k, c[j].v, ref, 1) # NoneNone
         THEN ScanEntries(c[j].k, c[j].v, ref, 1)
         ELSE ScanTables(c, ref, j + 1)

\* (mutant of LookupRet) the table form falls through to the scan of all tables
LookupRetFallThrough(c, d, ref) ==
    IF ~IsStr(ref) THEN RetRaise("AttributeError")
    ELSE IF ~StartsWithHash(ref.s) THEN NoneNone
    ELSE IF HasSlash(Tail(ref.s))
              /\ ScanEntries(SplitHead(Tail(ref.s)),
                             CacheAt(GetCache(c, d, SplitHead(Tail(ref.s))), SplitHead(Tail(ref.s))),
                             SplitTail(Tail(ref.s)), 1) # NoneNone
         THEN ScanEntries(SplitHead(Tail(ref.s)),
                          CacheAt(GetCache(c, d, SplitHead(Tail(ref.s))), SplitHead(Tail(ref.s))),
                          SplitTail(Tail(ref.s)), 1)
         ELSE ScanTables(c, IF HasSlash(Tail(ref.s)) THEN SplitTail(Tail(ref.s)) ELSE Tail(ref.s), 1)

\* lookup(ref): the value returned; ref.startswith on a value that is no str
\* raises AttributeError
LookupRet(c, d, ref) ==
    IF ~IsStr(ref) THEN RetRaise("AttributeError")
    ELSE IF ~StartsWithHash(ref.s) THEN NoneNone
    ELSE IF HasSlash(Tail(ref.s))
         THEN ScanEntries(SplitHead(Tail(ref.s)),
                          CacheAt(GetCache(c, d, SplitHead(Tail(ref.s))), SplitHead(Tail(ref.s))),
                          SplitTail(Tail(ref.s)), 1)
         ELSE ScanTables(c, Tail(ref.s), 1)

\* lookup(ref): the cache after the call; the table form goes through get(table)
LookupCache(c, d, ref) ==
    IF IsStr(ref) /\ StartsWithHash(ref.s) /\ HasSlash(Tail(ref.s))
    THEN GetCache(c, d, SplitHead(Tail(ref.s)))
    ELSE c

(********************* short_name index (load_utils.py) *********************)
\* get_table_dict_by_short_name(...).get(short_name): the dict comprehension keeps
\* the last entry of each short_name
DictGetShortName(entries, short_name) ==
    IF \E i \in 1..Len(entries) :
           entries[i].short_name # PyNone /\ entries[i].short_name = short_name
    THEN entries[CHOOSE i \in 1..Len(entries) :
                    /\ entries[i].short_name = short_name
                    /\ \A j \in (i + 1)..Len(entries) : entries[j].short_name # short_name]
    ELSE PyNone

\* get_table_dict_by_id(...).get(id_value)
DictGetId(entries, id_value) ==
    IF \E i \in 1..Len(entries) : entries[i].id # PyNone /\ entries[i].id = id_value
    THEN entries[CHOOSE i \in 1..Len(entries) :
                    /\ entries[i].id = id_value
                    /\ \A j \in (i + 1)..Len(entries) : entries[j].id # id_value]
    ELSE PyNone

\* (mutant of lookup_table_entry_by_short_name) the index is built from the files
lookup_table_entry_by_short_name_files(c, d, table, short_name) ==
    DictGetShortName(LoadEntries(d, table), short_name)

lookup_table_entry_by_short_name(c, d, table, short_name) ==
    DictGetShortName(CacheAt(GetCache(c, d, table), table), short_name)

lookup_table_entry_by_id(c, d, table, id_value) ==
    DictGetId(CacheAt(GetCache(c, d, table), table), id_value)

(************************ maybe_linked (render_utils.py) *********************)
\* the directories of data_dir that hold a schema.json
SchemaTables(d) ==
    {t \in DOMAIN d : \E i \in 1..Len(d[t]) : d[t][i].name = "schema.json"}

\* the orders in which data_dir.iterdir() may list them
Orders(S) == {o \in [1..Cardinality(S) -> S] : \A i, j \in DOMAIN o : i # j => o[i] # o[j]}

\* the listing orders a call of maybe_linked can meet: only the bare form with no
\* memo yet lists the directory
ListingOrders(ti, d, value) ==
    IF IsStr(value) /\ StartsWithHash(value.s) /\ ~HasSlash(Tail(value.s)) /\ ti = NotComputed
    THEN Orders(SchemaTables(d))
    ELSE {<<>>}

\* get_table_infos: the memo when there is one, else the tables in listing order
TableInfos(ti, d, order) == IF ti # NotComputed THEN ti ELSE order

\* get_table_infos calls get_table_data, hence get, for every table it lists
RECURSIVE GetAll(_, _, _, _)
GetAll(c, d, order, i) ==
    IF i > Len(order) THEN c ELSE GetAll(GetCache(c, d, order[i]), d, order, i + 1)
TableInfosCache(c, ti, d, order) == IF ti # NotComputed THEN c ELSE GetAll(c, d, order, 1)

\* f'<a href="../{table}/{short_name}.html">{name}</a>', name = entry.get('name', short_name)
Link(table, short_name, entry) ==
    PyStr(<<"<a href=\"../">> \o table \o <<"/">> \o short_name \o <<".html\">">>
              \o (IF entry.name # PyNone THEN entry.name.s ELSE short_name) \o <<"</a>">>)

\* (mutant of Unresolved) an unresolved reference renders as nothing
UnresolvedEmpty(value) == PyStr(<<>>)

\* '?' + value
Unresolved(value) == PyStr(<<"?">> \o value.s)

\* the loop of the bare form over tables_info
RECURSIVE LinkLoop(_, _, _, _, _, _)
LinkLoop(c, d, infos, key, value, i) ==
    IF i > Len(infos) THEN Unresolved(value)
    ELSE IF lookup_table_entry_by_short_name(c, d, infos[i], PyStr(key)) # PyNone
         THEN Link(infos[i], key, lookup_table_entry_by_short_name(c, d, infos[i], PyStr(key)))
         ELSE LinkLoop(GetCache(c, d, infos[i]), d, infos, key, value, i + 1)
RECURSIVE LinkLoopCache(_, _, _, _, _)
LinkLoopCache(c, d, infos, key, i) ==
    IF i > Len(infos) THEN c
    ELSE IF lookup_table_entry_by_short_name(c, d, infos[i], PyStr(key)) # PyNone
         THEN GetCache(c, d, infos[i])
         ELSE LinkLoopCache(GetCache(c, d, infos[i]), d, infos, key, i + 1)

\* maybe_linked(value): the text returned
MaybeLinkedRet(c, ti, d, order, value) ==
    IF ~IsStr(value) \/ ~StartsWithHash(value.s) THEN value
    ELSE IF HasSlash(Tail(value.s))
         THEN IF lookup_table_entry_by_short_name(
                     c, d, SplitHead(Tail(value.s)), PyStr(SplitTail(Tail(value.s)))) # PyNone
              THEN Link(SplitHead(Tail(value.s)), SplitTail(Tail(value.s)),
                        lookup_table_entry_by_short_name(
                            c, d, SplitHead(Tail(value.s)), PyStr(SplitTail(Tail(value.s)))))
              ELSE Unresolved(value)
         ELSE LinkLoop(TableInfosCache(c, ti, d, order), d, TableInfos(ti, d, order),
                       Tail(value.s), value, 1)

\* maybe_linked(value): the cache after the call
MaybeLinkedCache(c, ti, d, order, value) ==
    IF ~IsStr(value) \/ ~StartsWithHash(value.s) THEN c
    ELSE IF HasSlash(Tail(value.s)) THEN GetCache(c, d, SplitHead(Tail(value.s)))
         ELSE LinkLoopCache(TableInfosCache(c, ti, d, order), d, TableInfos(ti, d, order),
                            Tail(value.s), 1)

\* maybe_linked(value): the memo of get_table_infos after the call
MaybeLinkedInfos(ti, d, order, value) ==
    IF IsStr(value) /\ StartsWithHash(value.s) /\ ~HasSlash(Tail(value.s))
    THEN TableInfos(ti, d, order)
    ELSE ti

(************************* values handed to the resolvers *******************)
RefTables == {Mathematicians, Equations, NoSuch}
RefKeys == {<<"a">>, <<"1">>, <<"01">>, <<"b">>, <<>>}
Values ==
    {PyStr(<<"#">> \o t \o <<"/">> \o k) : t \in RefTables, k \in RefKeys}
        \cup {PyStr(<<"#">> \o k) : k \in RefKeys}
        \cup {PyStr(<<"a">>), PyStr(<<>>), PyNone, PyInt(1), PyEmptyList}
\* the keys handed to remove before resolving
RefRemoveKeys == {PyInt(1), PyStr(<<"1">>)}

(******************************** actions ***********************************)
Init ==
    /\ cache = <<>>
    /\ disk = DiskA
    /\ tables_info = NotComputed
    /\ last = [op |-> "init", arg |-> PyNone, ret |-> PyNone]

\* cache.get(t)
Get(t) ==
    /\ cache' = GetCache(cache, disk, t)
    /\ last' = [op |-> "get", arg |-> <<t>>, ret |-> PyNone]
    /\ UNCHANGED <<disk, tables_info>>

\* cache.update(t, e)
Update(t, e) ==
    LET c1 == GetCache(cache, disk, t)
        old == CacheAt(c1, t)
        new == UpdateEntries(old, e)
    IN /\ Len(new) <= Len(old) \/ Total(c1) < MaxEntries
       /\ cache' = CachePut(c1, t, new)
       /\ last' = [op |-> "update", arg |-> <<t, e>>, ret |-> PyNone]
       /\ UNCHANGED <<disk, tables_info>>

\* cache.remove(t, key)
Remove(t, key) ==
    LET c1 == GetCache(cache, disk, t)
    IN /\ cache' = CachePut(c1, t, RemoveEntries(CacheAt(c1, t), key))
       /\ last' = [op |-> "remove", arg |-> <<t, key>>, ret |-> PyNone]
       /\ UNCHANGED <<disk, tables_info>>

\* the files of the data directory are changed from outside the process
DiskEdit ==
    /\ disk' \in Snapshots \ {disk}
    /\ last' = [op |-> "disk", arg |-> PyNone, ret |-> PyNone]
    /\ UNCHANGED <<cache, tables_info>>

\* cache.lookup(value)
Lookup(value) ==
    /\ cache' = LookupCache(cache, disk, value)
    /\ last' = [op |-> "lookup", arg |-> value, ret |-> LookupRet(cache, disk, value)]
    /\ UNCHANGED <<disk, tables_info>>

\* maybe_linked(value, data_dir)
MaybeLinked(value) ==
    \E order \in ListingOrders(tables_info, disk, value) :
        /\ cache' = MaybeLinkedCache(cache, tables_info, disk, order, value)
        /\ tables_info' = MaybeLinkedInfos(tables_info, disk, order, value)
        /\ last' = [op |-> "maybe_linked", arg |-> value,
                    ret |-> MaybeLinkedRet(cache, tables_info, disk, order, value)]
        /\ UNCHANGED disk

Next ==
    \/ \E t \in Tables : Get(t)
    \/ \E t \in Tables, e \in Entities : Update(t, e)
    \/ \E t \in Tables, key \in RemoveKeys : Remove(t, key)
    \/ DiskEdit

Spec == Init /\ [][Next]_vars

\* the resolvers, over the stores that loading and removing reach
InitRef ==
    /\ cache = <<>>
    /\ disk \in RefSnapshots
    /\ tables_info = NotComputed
    /\ last = [op |-> "init", arg |-> PyNone, ret |-> PyNone]

NextRef ==
    \/ \E t \in Tables : Get(t)
    \/ \E t \in Tables, key \in RefRemoveKeys : Remove(t, key)
    \/ \E value \in Values : Lookup(value)
    \/ \E value \in Values : MaybeLinked(value)

SpecRef == InitRef /\ [][NextRef]_vars

(****************************** claims C1..C6 ********************************)
\* the smallest member of a non-empty set of numbers
Least(S) == CHOOSE i \in S : \A j \in S : i <= j

\* the list get(t) returns in the current state, and the cached list after the step
Listed(t) == CacheAt(GetCache(cache, disk, t), t)
ListedAfter(t) == CacheAt(cache', t)

\* the step is the call update(t, e), or remove(t, key)
IsUpdate(t, e) == last'.op = "update" /\ last'.arg = <<t, e>>
IsRemove(t, key) == last'.op = "remove" /\ last'.arg = <<t, key>>

\* x has e's id, or e has a short_name and x has the same
SameIdentity(x, e) == x.id = e.id \/ (e.short_name # PyNone /\ x.short_name = e.short_name)

\* C1: after update(table, e) the list of the table holds exactly one entity with
\* e's id or e's short_name, and that entity is e.
C1_ExactlyOneAfterUpdate ==
    [][\A t \in Tables, e \in Entities :
          IsUpdate(t, e) =>
              /\ Cardinality({i \in 1..Len(ListedAfter(t)) : SameIdentity(ListedAfter(t)[i], e)}) = 1
              /\ \A i \in 1..Len(ListedAfter(t)) :
                     SameIdentity(ListedAfter(t)[i], e) => ListedAfter(t)[i] = e]_vars

\* C2: update(table, e) replaces the first cached entity with e's id or e's
\* short_name and leaves the other positions alone; with no such entity it appends e.
C2_ReplaceFirstOrAppend ==
    [][\A t \in Tables, e \in Entities :
          IsUpdate(t, e) =>
              LET old == Listed(t)
                  M == {i \in 1..Len(old) : SameIdentity(old[i], e)}
              IN ListedAfter(t) = IF M = {} THEN Append(old, e)
                                  ELSE [old EXCEPT ![Least(M)] = e]]_vars

\* C3: update is idempotent: a second update(table, e) right after the first would
\* leave the list, entities, order and length, as the first one made it.
C3_UpdateIdempotent ==
    [][\A t \in Tables, e \in Entities :
          IsUpdate(t, e) => UpdateEntries(ListedAfter(t), e) = ListedAfter(t)]_vars

\* an update of the first entity of a list of two or more
C3_Witness ==
    /\ last.op = "update"
    /\ Len(CacheAt(cache, last.arg[1])) >= 2
    /\ CacheAt(cache, last.arg[1])[1] = last.arg[2]

\* r is l without the entries that have key as id or short_name, order kept:
\* some strictly increasing choice of positions of l spells r and takes exactly
\* the entries key does not name
KeepsOthersInOrder(l, r, key) ==
    \E f \in [1..Len(r) -> 1..Len(l)] :
        /\ \A i, j \in 1..Len(r) : i < j => f[i] < f[j]
        /\ \A i \in 1..Len(r) : r[i] = l[f[i]]
        /\ {f[i] : i \in 1..Len(r)} = {i \in 1..Len(l) : l[i].id # key /\ l[i].short_name # key}

C5_RoundTrip ==
    \A t \in Tables :
        InCache(cache, t) =>
            \A i \in 1..Len(CacheAt(cache, t)) :
                CacheAt(cache, t)[i].short_name # PyNone =>
                    LET r == lookup_table_entry_by_short_name(
                                 cache, disk, t, CacheAt(cache, t)[i].short_name)
                    IN r # PyNone /\ lookup_table_entry_by_id(cache, disk, t, r.id) = r

\* C6: once a table is cached it stays cached, and its list changes only in a step
\* of update or remove: a get after the files changed gives the old list.
C6_LoadedOnce ==
    [][\A t \in Tables :
          InCache(cache, t) =>
              /\ InCache(cache', t)
              /\ CacheAt(cache', t) # CacheAt(cache, t) => last'.op \in {"update", "remove"}]_vars

\* a get of a table whose files no longer hold what was loaded from them
C6_Witness ==
    /\ last.op = "get"
    /\ InCache(cache, last.arg[1])
    /\ disk = DiskB
    /\ CacheAt(cache, last.arg[1]) = LoadEntries(DiskA, last.arg[1])
    /\ CacheAt(cache, last.arg[1]) # LoadEntries(disk, last.arg[1])

(****************************** claims C7..C10 *******************************)
\* the reference strings '#table/key' and '#key'
TableRef(t, k) == PyStr(<<"#">> \o t \o <<"/">> \o k)
BareRef(k) == PyStr(<<"#">> \o k)

\* key names x: it is a number and x's id, or it is x's short_name
KeyNames(x, k) == (IsDigit(k) /\ x.id = PyInt(IntOf(k))) \/ x.short_name = PyStr(k)

\* C7: lookup('#table/key') gives (table, e) for the first entity e of the named
\* table that key names, and (None, None) when that table has none, whatever the
\* other tables hold; it touches no other table; a string without '#' gives
\* (None, None).
C7_TableFormNamedTableOnly ==
    /\ \A t \in RefTables, k \in RefKeys :
           LET M == {i \in 1..Len(Listed(t)) : KeyNames(Listed(t)[i], k)}
           IN /\ LookupRet(cache, disk, TableRef(t, k)) =
                     IF M = {} THEN NoneNone ELSE Ret(PyStr(t), Listed(t)[Least(M)])
              /\ \A u \in RefTables \ {t} :
                     InCache(LookupCache(cache, disk, TableRef(t, k)), u) <=> InCache(cache, u)
    /\ \A v \in Values :
           IsStr(v) /\ ~StartsWithHash(v.s) => LookupRet(cache, disk, v) = NoneNone

\* lookup('#equations/a') found nothing although mathematicians is cached with an 'a'
C7_Witness ==
    /\ last.op = "lookup"
    /\ last.arg = TableRef(Equations, <<"a">>)
    /\ last.ret = NoneNone
    /\ InCache(cache, Mathematicians)
    /\ \E i \in 1..Len(CacheAt(cache, Mathematicians)) :
           CacheAt(cache, Mathematicians)[i].short_name = PyStr(<<"a">>)

\* the places <<j, i>> of the cached entities that key names
Places(k) ==
    UNION {{<<j, i>> : i \in {n \in 1..Len(cache[j].v) : KeyNames(cache[j].v[n], k)}} :
              j \in 1..Len(cache)}
FirstPlace(P) ==
    CHOOSE p \in P : \A q \in P : p[1] < q[1] \/ (p[1] = q[1] /\ p[2] <= q[2])

\* C8: lookup('#key') gives the first match over the cached tables, tables in the
\* order they entered the cache and entities in list order, and (None, None) only
\* when key names no cached entity; it loads nothing.
C8_BareFormFirstAcrossTables ==
    \A k \in RefKeys :
        /\ LookupRet(cache, disk, BareRef(k)) =
               IF Places(k) = {} THEN NoneNone
               ELSE Ret(PyStr(cache[FirstPlace(Places(k))[1]].k),
                        cache[FirstPlace(Places(k))[1]].v[FirstPlace(Places(k))[2]])
        /\ LookupCache(cache, disk, BareRef(k)) = cache

\* lookup('#a') with an 'a' in both cached tables answered from the one cached first
C8_Witness ==
    /\ last.op = "lookup"
    /\ last.arg = BareRef(<<"a">>)
    /\ Len(cache) >= 2
    /\ cache[1].k = Equations
    /\ last.ret.table = PyStr(Equations)
    /\ \E j \in 2..Len(cache) : \E i \in 1..Len(cache[j].v) :
           cache[j].k = Mathematicians /\ cache[j].v[i].short_name = PyStr(<<"a">>)

\* C9: no call of lookup or maybe_linked raises, whatever value it is given.
C9_NeverRaises ==
    /\ last.op = "lookup" => last.ret.exc = ""
    /\ last.op = "maybe_linked" => last.ret.k # "raise"

\* no listed entity of table t has short_name k
NoShortName(t, k) == \A i \in 1..Len(Listed(t)) : Listed(t)[i].short_name # PyStr(k)

\* C10: maybe_linked of '#table/key' where the table holds no entity of that
\* short_name, and of '#key' where no table holds one, is '?' followed by the
\* reference text: not an exception and not the empty string.
C10_UnresolvedMarker ==
    /\ \A t \in RefTables, k \in RefKeys :
           NoShortName(t, k) =>
               \A order \in ListingOrders(tables_info, disk, TableRef(t, k)) :
                   /\ MaybeLinkedRet(cache, tables_info, disk, order, TableRef(t, k))
                          = PyStr(<<"?", "#">> \o t \o <<"/">> \o k)
                   /\ MaybeLinkedRet(cache, tables_info, disk, order, TableRef(t, k)) # PyStr(<<>>)
    /\ \A k \in RefKeys :
           (\A t \in RefTables : NoShortName(t, k)) =>
               \A order \in ListingOrders(tables_info, disk, BareRef(k)) :
                   /\ MaybeLinkedRet(cache, tables_info, disk, order, BareRef(k))
                          = PyStr(<<"?", "#">> \o k)
                   /\ MaybeLinkedRet(cache, tables_info, disk, order, BareRef(k)) # PyStr(<<>>)

\* maybe_linked('#equations/b') on a store with no 'b' gave '?#equations/b'
C10_Witness ==
    /\ last.op = "maybe_linked"
    /\ last.arg = TableRef(Equations, <<"b">>)
    /\ last.ret = PyStr(<<"?", "#", "equations", "/", "b">>)
    /\ InCache(cache, Equations)
    /\ Len(CacheAt(cache, Equations)) >= 1

(********************** render_card (render_utils.py) ************************)
\* entity with an author field and a boolean field `alive`
EntA(id, short_name, name, author) ==
    [id |-> id, short_name |-> short_name, name |-> name, author |-> author]
EntB(id, short_name, name, alive) ==
    [id |-> id, short_name |-> short_name, name |-> name, alive |-> alive]

\* entry.get(key, default): a key the dict lacks gives the default
EntryGet(entry, key, default) ==
    IF key \in DOMAIN entry /\ entry[key] # PyNone THEN entry[key] ELSE default

\* a column of schema['columns']; label, table and column are PyNone when absent
Col(name, label, type, table, column, rendered) ==
    [name |-> name, label |-> label, type |-> type, table |-> table,
     column |-> column, rendered |-> rendered]
\* the schema dict: {} has no columns and is falsy
Schema(cols) == [empty |-> FALSE, columns |-> cols]
EmptySchema == [empty |-> TRUE, columns |-> <<>>]

\* match(reference, entry, table): does the reference string designate entry
match(reference, entry, table) ==
    IF ~IsStr(reference) \/ ~StartsWithHash(reference.s) THEN FALSE
    ELSE LET key == Tail(reference.s)
             short_name_or_id == IF HasSlash(key) THEN SplitTail(key) ELSE key
         IN IF HasSlash(key) /\ table # <<>> /\ table # SplitHead(key) THEN FALSE
            ELSE IF IsDigit(short_name_or_id)
                 THEN EntryGet(entry, "id", PyNone) = PyInt(IntOf(short_name_or_id))
                 ELSE EntryGet(entry, "short_name", PyNone) = PyStr(short_name_or_id)

\* col.get('label', col_name)
ColLabel(col) == IF col.label # PyNone THEN col.label ELSE PyStr(<<col.name>>)

\* render_string_field(label, text, ...) given what maybe_linked returned for text
render_string_field(label, text, linked) ==
    IF ~Truthy(text) THEN <<>>
    ELSE (IF Truthy(label) THEN <<"<p><strong>">> \o label.s \o <<": </strong>">>
          ELSE <<"<p>">>) \o Format(linked) \o <<"</p>">>

\* render_latex_field(label, equation)
render_latex_field(label, equation) ==
    IF ~Truthy(equation) THEN <<>>
    ELSE (IF Truthy(label) THEN <<"<strong>">> \o label.s \o <<":</strong>">> ELSE <<>>)
             \o <<"<div class=\"table-display\"><div class=\"latex-equation\" data-latex=\"">>
             \o Format(equation) \o <<"\">">> \o Format(equation) \o <<"</div></div>">>

\* one <li> of the reference list: the link goes by short_name, else id; the text
\* is the name, else the short_name, else str(id)
RefItem(ref_table, ref_entry) ==
    <<"<li><a href='../">> \o ref_table \o <<"/">>
        \o Format(EntryGet(ref_entry, "short_name", EntryGet(ref_entry, "id", PyNone)))
        \o <<".html'>">>
        \o Format(EntryGet(ref_entry, "name",
                      EntryGet(ref_entry, "short_name",
                          PyStr(Format(EntryGet(ref_entry, "id", PyStr(<<>>)))))))
        \o <<"</a></li>">>
RECURSIVE RefItems(_, _, _)
RefItems(ref_table, ref_entries, i) ==
    IF i > Len(ref_entries) THEN <<>>
    ELSE RefItem(ref_table, ref_entries[i]) \o RefItems(ref_table, ref_entries, i + 1)

\* the entries of ref_table whose ref_column designates entry, in list order
RefEntries(entries, ref_column, entry, table_name) ==
    SelectSeq(entries, LAMBDA r : match(EntryGet(r, ref_column, PyNone), entry, table_name))

\* case 'reference' of render_card
ReferenceField(col, entries, entry, table_name) ==
    IF Truthy(col.table) /\ Truthy(col.column)
    THEN IF RefEntries(entries, col.column.s[1], entry, table_name) # <<>>
         THEN <<"<p><strong>">> \o ColLabel(col).s \o <<":</strong>", "<ul class='fields-list'>">>
                  \o RefItems(col.table.s,
                              RefEntries(entries, col.column.s[1], entry, table_name), 1)
                  \o <<"</ul>", "</p>">>
         ELSE <<"<p><strong>">> \o ColLabel(col).s \o <<":</strong> ", "<em>None</em>", "</p>">>
    ELSE <<"<p><strong>">> \o ColLabel(col).s
             \o <<":</strong> ", "<em>Invalid reference config</em>", "</p>">>

\* (mutant of BooleanDisplay) the value is tested for truth: None shows as 'No'
BooleanDisplayTruthy(col_value) == IF Truthy(col_value) THEN "Yes" ELSE "No"

\* case 'boolean' of render_card: `is True`, `is False`, else
BooleanDisplay(col_value) ==
    IF col_value = PyBool(TRUE) THEN "Yes"
    ELSE IF col_value = PyBool(FALSE) THEN "No"
    ELSE "Unspecified"

\* the column types `match col_type` has a case for
KnownTypes ==
    {"string", "integer", "boolean", "text", "latex", "enum", "array", "reference"}

\* the locals of the column loop: the store, the memo of get_table_infos, `field`
\* (bound says whether it was ever assigned), card_content as the list of the
\* `field + '\n'` pieces added so far, and the exception raised, if any
LoopState(c, ti, bound, field, content, exc) ==
    [c |-> c, ti |-> ti, bound |-> bound, field |-> field, content |-> content, exc |-> exc]

\* the case of `match col_type` taken for a column: the new value of `field`.
\* Columns of type text and enum (markdown, the enum table of the schema file)
\* are not among the schemas drawn.
ColumnField(table_name, col, entry, d, order, st) ==
    LET col_value == EntryGet(entry, col.name, PyStr(<<>>))
    IN CASE col.type = "string" ->
                render_string_field(ColLabel(col), col_value,
                                    MaybeLinkedRet(st.c, st.ti, d, order, col_value))
         [] col.type = "integer" ->
                <<"<p><strong>">> \o ColLabel(col).s \o <<":</strong> ">>
                    \o Format(col_value) \o <<"</p>">>
         [] col.type = "boolean" ->
                <<"<p><strong>">> \o ColLabel(col).s \o <<":</strong> ">>
                    \o <<BooleanDisplay(col_value), "</p>">>
         [] col.type = "latex" -> render_latex_field(ColLabel(col), col_value)
         [] col.type = "array" ->
                <<"<p><strong>">> \o ColLabel(col).s \o <<":</strong>">>
                    \o (IF col_value.k = "list"
                        THEN <<"<ul class='fields-list'>", "</ul>", "</p>">> ELSE <<>>)
         [] col.type = "reference" ->
                ReferenceField(col,
                    IF Truthy(col.table) /\ Truthy(col.column)
                    THEN CacheAt(GetCache(st.c, d, col.table.s), col.table.s) ELSE <<>>,
                    entry, table_name)

\* one turn of `for col in schema.get('columns', [])`
ColumnStep(table_name, col, entry, d, order, st) ==
    LET col_value == EntryGet(entry, col.name, PyStr(<<>>))
        linked == col.type = "string" /\ Truthy(col_value)
        scanned == col.type = "reference" /\ Truthy(col.table) /\ Truthy(col.column)
        c1 == IF linked THEN MaybeLinkedCache(st.c, st.ti, d, order, col_value)
              ELSE IF scanned THEN GetCache(st.c, d, col.table.s)
              ELSE st.c
        ti1 == IF linked THEN MaybeLinkedInfos(st.ti, d, order, col_value) ELSE st.ti
    IN IF ~col.rendered THEN st
       ELSE IF col.type \in KnownTypes
            THEN LET f == ColumnField(table_name, col, entry, d, order, st)
                 IN LoopState(c1, ti1, TRUE, f, Append(st.content, f), "")
       ELSE IF ~st.bound
            THEN LoopState(st.c, st.ti, FALSE, <<>>, st.content, "UnboundLocalError")
       ELSE LoopState(st.c, st.ti, TRUE, st.field, Append(st.content, st.field), "")

RECURSIVE ColumnLoop(_, _, _, _, _, _, _)
ColumnLoop(table_name, cols, entry, d, order, i, st) ==
    IF i > Len(cols) \/ st.exc # "" THEN st
    ELSE ColumnLoop(table_name, cols, entry, d, order, i + 1,
                    ColumnStep(table_name, cols[i], entry, d, order, st))

\* render_card(table_name, schema, entry, data_dir): the locals when it returns or
\* raises; the closing f-string reads entry['id']
RenderCardState(c, ti, d, order, table_name, schema, entry) ==
    LET st == ColumnLoop(table_name, schema.columns, entry, d, order, 1,
                         LoopState(c, ti, FALSE, <<>>, <<>>, ""))
    IN IF st.exc = "" /\ EntryGet(entry, "id", PyNone) = PyNone
       THEN [st EXCEPT !.exc = "KeyError"]
       ELSE st

\* what render_card gives back: the card's title, the cells of card_content, or
\* the exception; a falsy schema gives the 'No data available' card
NoData == [exc |-> "", nodata |-> TRUE, title |-> <<>>, content |-> <<>>]
RenderCardRet(c, ti, d, order, table_name, schema, entry) ==
    IF schema.empty THEN NoData
    ELSE LET st == RenderCardState(c, ti, d, order, table_name, schema, entry)
         IN [exc |-> st.exc, nodata |-> FALSE,
             title |-> Format(EntryGet(entry, "name", PyStr(<<"No Name">>))),
             content |-> IF st.exc = "" THEN st.content ELSE <<>>]

(******************* the stores and schemas handed to render_card ************)
Euler == EntB(PyInt(1), PyStr(<<"euler">>), PyStr(<<"Leonhard Euler">>), PyBool(FALSE))
Gauss == EntB(PyInt(2), PyStr(<<"1">>), PyStr(<<"Gauss">>), PyBool(TRUE))
Noether == EntB(PyInt(10), PyStr(<<"noether">>), PyNone, PyNone)
Hilbert == EntB(PyInt(3), PyNone, PyStr(<<"Hilbert">>), PyInt(1))

\* an equation whose author field holds the given value
Eq(id, short_name, name, author) == EntA(PyInt(id), short_name, name, author)
EulersIdentity(author) ==
    Eq(10, PyStr(<<"eulers-identity">>), PyStr(<<"Euler's Identity">>), author)

\* the store of the example: the author is the plain string 'euler'
CardDisk1 ==
    [t \in Tables |->
        IF t = Mathematicians
        THEN <<SchemaFile, File("001_euler.json", TRUE, Euler)>>
        ELSE <<SchemaFile,
               File("010_eulers-identity.json", TRUE, EulersIdentity(PyStr(<<"euler">>)))>>]
\* authors given as references by short_name, with and without the table
CardDisk2 ==
    [t \in Tables |->
        IF t = Mathematicians
        THEN <<SchemaFile, File("001_euler.json", TRUE, Euler),
               File("010_noether.json", TRUE, Noether)>>
        ELSE <<SchemaFile,
               File("010_eulers-identity.json", TRUE, EulersIdentity(PyStr(<<"#", "euler">>))),
               File("002_b.json", TRUE,
                    Eq(2, PyStr(<<"b">>), PyNone, PyStr(<<"#", "mathematicians", "/", "euler">>))),
               File("003.json", TRUE,
                    Eq(3, PyNone, PyNone, PyStr(<<"#", "equations", "/", "euler">>))),
               File("001_euler.json", TRUE,
                    Eq(1, PyStr(<<"euler">>), PyStr(<<"e">>), PyNone))>>]
\* authors given by number, next to a mathematician whose short_name is a number
CardDisk3 ==
    [t \in Tables |->
        IF t = Mathematicians
        THEN <<File("002_1.json", TRUE, Gauss), File("001_euler.json", TRUE, Euler),
               File("003.json", TRUE, Hilbert), SchemaFile>>
        ELSE <<SchemaFile,
               File("010_eulers-identity.json", TRUE, EulersIdentity(PyStr(<<"#", "1">>))),
               File("002_b.json", TRUE,
                    Eq(2, PyStr(<<"b">>), PyStr(<<"y">>), PyStr(<<"#", "mathematicians", "/", "01">>))),
               File("003_c.json", TRUE,
                    Eq(3, PyStr(<<"c">>), PyStr(<<"x">>), PyStr(<<"#", "mathematicians", "/", "3">>)))>>]
CardSnapshots == {CardDisk1, CardDisk2, CardDisk3}

NameCol == Col("name", PyNone, "string", PyNone, PyNone, TRUE)
AuthorCol == Col("author", PyStr(<<"Author">>), "string", PyNone, PyNone, TRUE)
IdCol == Col("id", PyNone, "integer", PyNone, PyNone, TRUE)
AliveCol == Col("alive", PyStr(<<"Alive">>), "boolean", PyNone, PyNone, TRUE)
EquationsCol ==
    Col("equations", PyNone, "reference", PyStr(Equations), PyStr(<<"author">>), TRUE)
BadRefCol == Col("equations", PyNone, "reference", PyStr(Equations), PyNone, TRUE)
BlobCol == Col("author", PyNone, "blob", PyNone, PyNone, TRUE)
HiddenCol == Col("name", PyNone, "string", PyNone, PyNone, FALSE)

\* the schemas render_card is called with, per table
EquationsSchemas ==
    {Schema(<<NameCol, AuthorCol>>),
     Schema(<<BlobCol, NameCol, IdCol>>),
     Schema(<<NameCol, BlobCol, IdCol>>),
     Schema(<<NameCol, IdCol, BlobCol>>),
     Schema(<<HiddenCol, BlobCol>>),
     Schema(<<Col("name", PyNone, "latex", PyNone, PyNone, TRUE),
              Col("author", PyNone, "array", PyNone, PyNone, TRUE)>>)}
MathematiciansSchemas ==
    {Schema(<<AliveCol, EquationsCol>>),
     Schema(<<IdCol, BadRefCol>>),
     Schema(<<NameCol, AliveCol, BlobCol>>),
     EmptySchema}
CardSchemas(t) == IF t = Equations THEN EquationsSchemas ELSE MathematiciansSchemas

\* the keys handed to remove and the entities handed to update next to rendering
CardRemoveKeys == {PyInt(1), PyStr(<<"euler">>)}
CardUpdates ==
    {<<Mathematicians, Euler>>, <<Equations, EulersIdentity(PyStr(<<"#", "euler">>))>>}

(******************* render_entry_form (render_utils.py) *********************)
\* the value of the option the boolean select pre-selects
FormSelected(value) ==
    IF value = PyBool(TRUE) THEN "true"
    ELSE IF value = PyBool(FALSE) THEN "false"
    ELSE ""

\* one <option> of the select
FormOption(opt_val, opt_label, selected) ==
    <<"<option value='", opt_val, "' ", IF selected = opt_val THEN "selected" ELSE "",
      ">", opt_label, "</option>">>

\* input_html of a boolean column: Unspecified, Yes, No, in that order
BooleanInput(name, value) ==
    <<"<select id='", name, "' name='", name, "'>">>
        \o FormOption("", "Unspecified", FormSelected(value))
        \o FormOption("true", "Yes", FormSelected(value))
        \o FormOption("false", "No", FormSelected(value))
        \o <<"</select>">>

\* the column types render_entry_form builds an input for; reference is skipped
FormTypes == {"array", "boolean", "integer", "enum", "string", "text", "latex"}

\* input_html of a column; `required` and `enum` are absent from the columns
\* drawn, and array columns are not drawn for forms
FormInput(col, value) ==
    CASE col.type = "boolean" -> BooleanInput(col.name, value)
      [] col.type = "integer" ->
             <<"<input type='number' id='", col.name, "' name='", col.name, "' value='">>
                 \o Format(value) \o <<"' ", "", ">">>
      [] col.type \in {"string", "latex"} ->
             <<"<input type='text' id='", col.name, "' name='", col.name, "' value='">>
                 \o Format(value) \o <<"' ", "", ">">>
      [] col.type = "text" ->
             <<"<textarea id='", col.name, "' name='", col.name, "' rows='4' cols='50' ", "", ">">>
                 \o Format(value) \o <<"</textarea>">>
      [] col.type = "enum" ->
             <<"<select id='", col.name, "' name='", col.name, "' ", "", ">", "</select>">>

\* the loop over the columns: form_fields as the list of the input_html added,
\* or the ValueError of a column type with no branch
RECURSIVE FormLoop(_, _, _, _)
FormLoop(cols, entry, i, fields) ==
    IF i > Len(cols) THEN [exc |-> "", fields |-> fields]
    ELSE IF cols[i].type = "reference" THEN FormLoop(cols, entry, i + 1, fields)
    ELSE IF cols[i].type \notin FormTypes THEN [exc |-> "ValueError", fields |-> <<>>]
    ELSE FormLoop(cols, entry, i + 1,
                  Append(fields,
                         FormInput(cols[i],
                                   IF entry = PyNone THEN PyStr(<<>>)
                                   ELSE EntryGet(entry, cols[i].name, PyStr(<<>>)))))

\* render_entry_form(table_name, schema, entry): entry is PyNone for the add form
RenderEntryFormRet(schema, entry) == FormLoop(schema.columns, entry, 1, <<>>)

FormSchemas ==
    {Schema(<<NameCol, AliveCol, EquationsCol>>),
     Schema(<<IdCol, AliveCol>>),
     Schema(<<NameCol, BlobCol, AliveCol>>),
     EmptySchema}

(************************* rendering, as actions ******************************)
\* the listing orders a call of render_card can meet
CardOrders(ti, d) == IF ti = NotComputed THEN Orders(SchemaTables(d)) ELSE {<<>>}

\* the list of a table the callers of the renderer hold: they got it from get
CachedList(t) == IF InCache(cache, t) THEN CacheAt(cache, t) ELSE <<>>

\* render_card(t, schema, entry) for the i-th cached entity of table t
RenderCard(t, schema, i) ==
    /\ i \in 1..Len(CachedList(t))
    /\ \E order \in CardOrders(tables_info, disk) :
           LET entry == CacheAt(cache, t)[i]
               st == IF schema.empty THEN LoopState(cache, tables_info, FALSE, <<>>, <<>>, "")
                     ELSE RenderCardState(cache, tables_info, disk, order, t, schema, entry)
           IN /\ cache' = st.c
              /\ tables_info' = st.ti
              /\ last' = [op |-> "render_card", arg |-> <<t, schema, entry>>,
                          ret |-> RenderCardRet(cache, tables_info, disk, order, t, schema, entry)]
    /\ UNCHANGED disk

\* render_entry_form(t, schema, entry): the edit form of a cached entity (i > 0) or
\* the add form (i = 0)
RenderEntryForm(t, schema, i) ==
    /\ InCache(cache, t)
    /\ i \in 0..Len(CachedList(t))
    /\ LET entry == IF i = 0 THEN PyNone ELSE CacheAt(cache, t)[i]
       IN last' = [op |-> "render_entry_form", arg |-> <<t, schema, entry>>,
                   ret |-> RenderEntryFormRet(schema, entry)]
    /\ UNCHANGED <<cache, disk, tables_info>>

InitCard ==
    /\ cache = <<>>
    /\ disk \in CardSnapshots
    /\ tables_info = NotComputed
    /\ last = [op |-> "init", arg |-> PyNone, ret |-> PyNone]

NextCard ==
    \/ \E t \in Tables : Get(t)
    \/ \E u \in CardUpdates : Update(u[1], u[2])
    \/ \E t \in Tables, key \in CardRemoveKeys : Remove(t, key)
    \/ \E t \in Tables : \E schema \in CardSchemas(t) :
           \E i \in 1..Len(CachedList(t)) : RenderCard(t, schema, i)
    \/ \E schema \in FormSchemas :
           \E i \in 0..Len(CachedList(Mathematicians)) :
               RenderEntryForm(Mathematicians, schema, i)

SpecCard == InitCard /\ [][NextCard]_vars

(****************************** claims C11..C15 ******************************)
\* the step before this state was render_card(t, schema, entry) and it returned
Rendered(schema) ==
    last.op = "render_card" /\ last.arg[2] = schema /\ last.ret.exc = ""

\* the cell of a string column with the given label that shows the text
StringCell(label, text) == <<"<p><strong>", label, ": </strong>">> \o text \o <<"</p>">>

\* the page of an entity: its short_name, else its id
PageKey(x) == Format(EntryGet(x, "short_name", EntryGet(x, "id", PyNone)))

\* C11: the card of the equation whose author is 'euler', rendered with Leonhard
\* Euler among the mathematicians, shows the author as a link to
\* mathematicians/euler.html labelled 'Leonhard Euler'; and any author value that
\* lookup resolves to an entity is shown as a link to that entity's page, labelled
\* with the entity's name.
C11_AuthorRenderedAsLink ==
    Rendered(Schema(<<NameCol, AuthorCol>>)) /\ last.arg[1] = Equations =>
        LET author == EntryGet(last.arg[3], "author", PyNone)
            r == LookupRet(cache, disk, author)
        IN /\ (/\ last.arg[3] = EulersIdentity(PyStr(<<"euler">>))
               /\ \E i \in 1..Len(Listed(Mathematicians)) : Listed(Mathematicians)[i] = Euler)
                  => last.ret.content[2] =
                         StringCell("Author", Link(Mathematicians, <<"euler">>, Euler).s)
           /\ (IsStr(author) /\ r.entry # PyNone)
                  => last.ret.content[2] =
                         StringCell("Author", Link(r.table.s, PageKey(r.entry), r.entry).s)

\* the short_names asked about after a removal
CardKeys == {<<"euler">>, <<"noether">>, <<"eulers-identity">>}

\* the entities of short_name s in the files of table t
FiledAs(t, s) ==
    {LoadEntries(disk, t)[i] :
        i \in {n \in 1..Len(LoadEntries(disk, t)) :
                  LoadEntries(disk, t)[n].short_name = PyStr(s)}}

\* table t was loaded with an entity of short_name s and its list holds none now
RemovedFromStore(t, s) ==
    /\ InCache(cache, t)
    /\ FiledAs(t, s) # {}
    /\ \A i \in 1..Len(CacheAt(cache, t)) : CacheAt(cache, t)[i].short_name # PyStr(s)

\* C12: once the entity of short_name s is gone from the list of table t, every
\* rendering of a reference to it is the unresolved text: '#t/s' renders '?#t/s',
\* '#s' never renders a link into t (and renders '?#s' when no other table holds
\* an s), lookup gives none of the removed entities, and a card rendered since
\* shows such an author as '?' and the reference.
C12_RemovedRendersUnresolved ==
    \A t \in Tables, s \in CardKeys :
        RemovedFromStore(t, s) =>
            /\ \A order \in CardOrders(tables_info, disk) :
                   /\ MaybeLinkedRet(cache, tables_info, disk, order, TableRef(t, s))
                          = PyStr(<<"?", "#">> \o t \o <<"/", s[1]>>)
                   /\ \A x \in FiledAs(t, s) :
                          MaybeLinkedRet(cache, tables_info, disk, order, BareRef(s))
                              # Link(t, s, x)
                   /\ (\A u \in Tables \ {t} : NoShortName(u, s))
                          => MaybeLinkedRet(cache, tables_info, disk, order, BareRef(s))
                                 = PyStr(<<"?", "#", s[1]>>)
            /\ LookupRet(cache, disk, TableRef(t, s)).entry \notin FiledAs(t, s)
            /\ (/\ Rendered(Schema(<<NameCol, AuthorCol>>))
                /\ EntryGet(last.arg[3], "author", PyNone) = TableRef(t, s))
                   => last.ret.content[2] = StringCell("Author", <<"?", "#">> \o t \o <<"/", s[1]>>)
            /\ (/\ Rendered(Schema(<<NameCol, AuthorCol>>))
                /\ EntryGet(last.arg[3], "author", PyNone) = BareRef(s)
                /\ \A u \in Tables \ {t} : NoShortName(u, s))
                   => last.ret.content[2] = StringCell("Author", <<"?", "#", s[1]>>)

\* the card of the equation by '#euler' rendered after euler was removed from the
\* mathematicians (and from the equations): the author shows as '?#euler'
C12_Witness ==
    /\ last.op = "render_card"
    /\ last.arg[3] = EulersIdentity(PyStr(<<"#", "euler">>))
    /\ RemovedFromStore(Mathematicians, <<"euler">>)
    /\ last.ret.exc = ""
    /\ last.ret.content[2] = <<"<p><strong>", "Author", ": </strong>", "?", "#", "euler", "</p>">>

\* the reference string designates entity e of table t: its key is e's id as a
\* number or is e's short_name, and the table it names, if any, is t
Designates(reference, e, t) ==
    /\ IsStr(reference)
    /\ StartsWithHash(reference.s)
    /\ HasSlash(Tail(reference.s)) => SplitHead(Tail(reference.s)) = t
    /\ KeyNames(e, IF HasSlash(Tail(reference.s)) THEN SplitTail(Tail(reference.s))
                   ELSE Tail(reference.s))

\* C13: the cell of the reference column (equations, author) on the card of a
\* mathematician e lists exactly the equations whose author is a reference string
\* that designates e, in list order, and shows 'None' when there is none.
C13_ReverseReferences ==
    Rendered(Schema(<<AliveCol, EquationsCol>>)) /\ last.arg[1] = Mathematicians =>
        LET L == SelectSeq(CacheAt(cache, Equations),
                           LAMBDA a : Designates(EntryGet(a, "author", PyNone),
                                                 last.arg[3], Mathematicians))
        IN last.ret.content[2] =
               IF L = <<>>
               THEN <<"<p><strong>", "equations", ":</strong> ", "<em>None</em>", "</p>">>
               ELSE <<"<p><strong>", "equations", ":</strong>", "<ul class='fields-list'>">>
                        \o RefItems(Equations, L, 1) \o <<"</ul>", "</p>">>

\* the columns before the j-th are all rendered and of a known type, so the j-th
\* cell of the card belongs to the j-th column
PlainBefore(cols, j) == \A k \in 1..(j - 1) : cols[k].rendered /\ cols[k].type \in KnownTypes

\* the select of the column 'alive' with the option of value v pre-selected
AliveSelect(v) ==
    <<"<select id='", "alive", "' name='", "alive", "'>",
      "<option value='", "", "' ", IF v = "" THEN "selected" ELSE "", ">", "Unspecified", "</option>",
      "<option value='", "true", "' ", IF v = "true" THEN "selected" ELSE "", ">", "Yes", "</option>",
      "<option value='", "false", "' ", IF v = "false" THEN "selected" ELSE "", ">", "No", "</option>",
      "</select>">>

\* C14: the card shows a boolean column as 'Yes' for True, 'No' for False and
\* 'Unspecified' for every other value, a missing one included; the form
\* pre-selects 'true', 'false' or the empty option in the same three cases.
C14_BooleanThreeStates ==
    /\ last.op = "render_card" /\ last.ret.exc = "" /\ ~last.arg[2].empty =>
           \A j \in 1..Len(last.arg[2].columns) :
               last.arg[2].columns[j] = AliveCol /\ PlainBefore(last.arg[2].columns, j) =>
                   LET v == EntryGet(last.arg[3], "alive", PyNone)
                       shown == last.ret.content[j][4]
                   IN /\ last.ret.content[j] = <<"<p><strong>", "Alive", ":</strong> ", shown, "</p>">>
                      /\ shown = "Yes" <=> v = PyBool(TRUE)
                      /\ shown = "No" <=> v = PyBool(FALSE)
                      /\ shown = "Unspecified" <=> v \notin {PyBool(TRUE), PyBool(FALSE)}
    /\ last.op = "render_entry_form" /\ last.ret.exc = "" /\ ~last.arg[2].empty =>
           LET v == IF last.arg[3] = PyNone THEN PyNone
                    ELSE EntryGet(last.arg[3], "alive", PyNone)
           IN last.ret.fields[2] =
                  AliveSelect(IF v = PyBool(TRUE) THEN "true"
                              ELSE IF v = PyBool(FALSE) THEN "false" ELSE "")

\* the card of an entity with no 'alive' field shows 'Unspecified'
C14_Witness ==
    /\ last.op = "render_card"
    /\ last.arg[3] = Noether
    /\ last.arg[2] = Schema(<<AliveCol, EquationsCol>>)
    /\ last.ret.content[1] = <<"<p><strong>", "Alive", ":</strong> ", "Unspecified", "</p>">>

\* the columns of a known type, in schema order
KnownColumns(cols) == SelectSeq(cols, LAMBDA col : col.type \in KnownTypes)

\* C15: a card rendered from a schema with a column of unknown type does not
\* raise, and its cells are those of the columns of known type, each once and in
\* schema order, with nothing in the place of the unknown column, wherever that
\* column stands.
C15_UnknownColumnOnlyFails ==
    (/\ last.op = "render_card"
     /\ ~last.arg[2].empty
     /\ \E j \in 1..Len(last.arg[2].columns) :
            last.arg[2].columns[j].rendered /\ last.arg[2].columns[j].type \notin KnownTypes)
        => /\ last.ret.exc = ""
           /\ last.ret.content =
                  RenderCardRet(cache, tables_info, disk, <<>>, last.arg[1],
                                Schema(KnownColumns(last.arg[2].columns)), last.arg[3]).content

(********************************* claim C20 *********************************)
\* C20: a step of remove(table, key) or update(table, e) leaves every other table
\* as it was, cached or not and entity by entity, and a remove leaves the entities
\* of the named table that key does not name as they were: an equation keeps its
\* author string when the mathematician it names is removed.
C20_OnlyNamedTableChanges ==
    [][last'.op \in {"update", "remove"} =>
          /\ \A u \in Tables \ {last'.arg[1]} :
                 /\ InCache(cache', u) <=> InCache(cache, u)
                 /\ InCache(cache, u) => CacheAt(cache', u) = CacheAt(cache, u)
          /\ last'.op = "remove" =>
                 \A i \in 1..Len(Listed(last'.arg[1])) :
                     (/\ Listed(last'.arg[1])[i].id # last'.arg[2]
                      /\ Listed(last'.arg[1])[i].short_name # last'.arg[2])
                         => \E j \in 1..Len(ListedAfter(last'.arg[1])) :
                                ListedAfter(last'.arg[1])[j] = Listed(last'.arg[1])[i]]_vars

\* euler was removed from the mathematicians while the cached equations hold one
\* whose author is '#euler'
C20_Witness ==
    /\ last.op = "remove"
    /\ last.arg = <<Mathematicians, PyInt(1)>>
    /\ RemovedFromStore(Mathematicians, <<"euler">>)
    /\ InCache(cache, Equations)
    /\ \E i \in 1..Len(CacheAt(cache, Equations)) :
           CacheAt(cache, Equations)[i] = EulersIdentity(PyStr(<<"#", "euler">>))

(************************ make_graph.generate (make_graph.py) ****************)
\* f'#{table}/{entry["id"]}'
NodeId(table, entry) == <<"#">> \o table \o <<"/">> \o Format(entry.id)

\* the node of a mathematician
MathematicianNode(m) ==
    [id |-> NodeId(Mathematicians, m),
     label |-> Format(EntryGet(m, "name", m.id)),
     ref |-> PyStr(NodeId(Mathematicians, m)),
     type |-> "mathematician", shape |-> "ellipse",
     color |-> "#4F81BD", fillcolor |-> "#D9E1F2"]

\* the node of an equation; the label is f'{name}\n${latex}$'
EquationNode(eq) ==
    [id |-> NodeId(Equations, eq),
     label |-> Format(EntryGet(eq, "name", eq.id)) \o <<"\n$">>
                   \o Format(EntryGet(eq, "equation", PyStr(<<>>))) \o <<"$">>,
     ref |-> PyStr(NodeId(Equations, eq)),
     type |-> "equation", shape |-> "box",
     color |-> "#C0504D", fillcolor |-> "#F2DCDB"]

\* the author edge: the target is always written as a mathematician's node
AuthorEdge(eq, author_entry) ==
    [source |-> NodeId(Equations, eq),
     target |-> NodeId(Mathematicians, author_entry),
     ref |-> PyStr(<<>>), label |-> PyStr(<<"author">>),
     style |-> "dashed", color |-> "#C0504D", arrowhead |-> "open"]

\* the graph being built: the store, the lists, and the exception raised, if any
Graph(c, exc, nodes, edges) == [c |-> c, exc |-> exc, nodes |-> nodes, edges |-> edges]

\* `for m in cache.get("mathematicians")`: m["id"] raises KeyError without an id
RECURSIVE MathematicianLoop(_, _, _)
MathematicianLoop(ms, i, g) ==
    IF i > Len(ms) THEN g
    ELSE IF EntryGet(ms[i], "id", PyNone) = PyNone THEN [g EXCEPT !.exc = "KeyError"]
    ELSE MathematicianLoop(ms, i + 1, [g EXCEPT !.nodes = Append(@, MathematicianNode(ms[i]))])

\* one turn of `for eq in cache.get("equations")`: the node, then the lookup of
\* eq.get("author", []) and the edge when it gives an entry
EquationStep(d, eq, g) ==
    IF EntryGet(eq, "id", PyNone) = PyNone THEN [g EXCEPT !.exc = "KeyError"]
    ELSE LET author == EntryGet(eq, "author", PyEmptyList)
             r == LookupRet(g.c, d, author)
             g1 == [g EXCEPT !.nodes = Append(@, EquationNode(eq)),
                             !.c = LookupCache(g.c, d, author)]
         IN IF r.exc # "" THEN [g1 EXCEPT !.exc = r.exc]
            ELSE IF r.entry = PyNone THEN g1
            ELSE IF EntryGet(r.entry, "id", PyNone) = PyNone THEN [g1 EXCEPT !.exc = "KeyError"]
            ELSE [g1 EXCEPT !.edges = Append(@, AuthorEdge(eq, r.entry))]

RECURSIVE EquationLoop(_, _, _, _)
EquationLoop(d, eqs, i, g) ==
    IF i > Len(eqs) \/ g.exc # "" THEN g
    ELSE EquationLoop(d, eqs, i + 1, EquationStep(d, eqs[i], g))

\* generate(cache): the graph returned, or the exception, and the store after
Generate(c, d) ==
    LET c1 == GetCache(c, d, Mathematicians)
        g1 == MathematicianLoop(CacheAt(c1, Mathematicians), 1, Graph(c1, "", <<>>, <<>>))
        c2 == GetCache(c1, d, Equations)
    IN IF g1.exc # "" THEN g1
       ELSE EquationLoop(d, CacheAt(c2, Equations), 1, [g1 EXCEPT !.c = c2])

(******************* render_graph_html (render_graph_utils.py) ***************)
\* ", ".join(attrs)
RECURSIVE Join(_, _)
Join(attrs, i) ==
    IF i > Len(attrs) THEN <<>>
    ELSE IF i = Len(attrs) THEN <<attrs[i]>>
    ELSE <<attrs[i], ", ">> \o Join(attrs, i + 1)

\* x.get(key): PyNone for a key the dict lacks
DictGet(x, key) == IF key \in DOMAIN x THEN x[key] ELSE PyNone

\* the statement of a node
NodeLine(node) ==
    <<"\"">> \o node.id \o <<"\" [">>
        \o Join(<<"label=\"">> \o (IF "label" \in DOMAIN node THEN node.label ELSE node.id)
                    \o <<"\"">>
                \o (IF "color" \in DOMAIN node THEN <<"color=\"" \o node.color \o "\"">> ELSE <<>>)
                \o (IF "fillcolor" \in DOMAIN node
                    THEN <<"fillcolor=\"" \o node.fillcolor \o "\"", "style=filled">> ELSE <<>>)
                \o (IF "shape" \in DOMAIN node THEN <<"shape=" \o node.shape>> ELSE <<>>)
                \o (IF "style" \in DOMAIN node THEN <<"style=" \o node.style>> ELSE <<>>), 1)
        \o <<"];">>
RECURSIVE NodeLines(_, _)
NodeLines(nodes, i) ==
    IF i > Len(nodes) THEN <<>> ELSE <<NodeLine(nodes[i])>> \o NodeLines(nodes, i + 1)

\* f"__edge__{edge_idx}", edge_idx counted from 0
EdgeLabelNode(edge_idx) == <<"__edge__", StrOf(edge_idx)>>

\* the statement of the label node of an edge
LabelNodeLine(edge_idx, edge) ==
    <<"\"">> \o EdgeLabelNode(edge_idx)
        \o <<"\" [shape=box, style=filled, fillcolor=\"#f0f0f0\", fontsize=10, width=0.3, height=0.3, label=\"">>
        \o (IF "label" \in DOMAIN edge THEN Format(edge.label) ELSE <<"*">>) \o <<"\"];">>
RECURSIVE LabelNodeLines(_, _)
LabelNodeLines(edges, i) ==
    IF i > Len(edges) THEN <<>>
    ELSE <<LabelNodeLine(i - 1, edges[i])>> \o LabelNodeLines(edges, i + 1)

\* the attributes both segments of an edge carry
EdgeAttrs(edge) ==
    <<"label=\"\"">>
        \o (IF "color" \in DOMAIN edge THEN <<"color=\"" \o edge.color \o "\"">>
            ELSE <<"color=\"#888888\"">>)
        \o (IF "arrowhead" \in DOMAIN edge THEN <<"arrowhead=" \o edge.arrowhead>> ELSE <<>>)
        \o (IF "style" \in DOMAIN edge THEN <<"style=" \o edge.style>> ELSE <<>>)
        \o <<"arrowsize=0.7">>

\* the two statements of an edge: source -> label node with dir=none, then
\* label node -> target
SegmentLines(edge_idx, edge) ==
    << <<"\"">> \o edge.source \o <<"\" -> \"">> \o EdgeLabelNode(edge_idx) \o <<"\" [">>
           \o Join(EdgeAttrs(edge), 1) \o <<", dir=none];">>,
       <<"\"">> \o EdgeLabelNode(edge_idx) \o <<"\" -> \"">> \o edge.target \o <<"\" [">>
           \o Join(EdgeAttrs(edge), 1) \o <<"];">> >>
RECURSIVE EdgeLines(_, _)
EdgeLines(edges, i) ==
    IF i > Len(edges) THEN <<>>
    ELSE SegmentLines(i - 1, edges[i]) \o EdgeLines(edges, i + 1)

\* dot_lines when the DOT source is complete
DotLines(nodes, edges) ==
    << <<"strict digraph \"\" {graph [bgcolor=transparent];">>,
       <<"node [label=\"\\N\", penwidth=1.8];">>,
       <<"edge [arrowhead=vee];">> >>
        \o NodeLines(nodes, 1) \o LabelNodeLines(edges, 1) \o EdgeLines(edges, 1)
        \o << <<"}">> >>

\* the detail cards: every truthy ref of a node, and ref and label_ref of an edge,
\* goes through cache.lookup; for an entry found the card needs
\* cache.get_table_schema, which TableEntriesCache does not have
CardStep(d, ref, st) ==
    IF st.exc # "" \/ ~Truthy(ref) THEN st
    ELSE IF LookupRet(st.c, d, ref).exc # ""
         THEN [c |-> st.c, exc |-> LookupRet(st.c, d, ref).exc]
    ELSE IF LookupRet(st.c, d, ref).entry # PyNone
         THEN [c |-> LookupCache(st.c, d, ref), exc |-> "AttributeError"]
    ELSE [c |-> LookupCache(st.c, d, ref), exc |-> ""]
RECURSIVE NodeCards(_, _, _, _)
NodeCards(d, nodes, i, st) ==
    IF i > Len(nodes) THEN st
    ELSE NodeCards(d, nodes, i + 1, CardStep(d, DictGet(nodes[i], "ref"), st))
RECURSIVE EdgeCards(_, _, _, _)
EdgeCards(d, edges, i, st) ==
    IF i > Len(edges) THEN st
    ELSE EdgeCards(d, edges, i + 1,
                   CardStep(d, DictGet(edges[i], "label_ref"),
                            CardStep(d, DictGet(edges[i], "ref"), st)))

\* render_graph_html(nodes, edges, legend=[]): the store after, the exception,
\* and dot_lines as built before the cards. The closing call hands
\* render_base_page_template a keyword base_url that it does not take, so a call
\* that gets that far raises TypeError.
RenderGraphHtmlState(c, d, nodes, edges) ==
    LET st == EdgeCards(d, edges, 1, NodeCards(d, nodes, 1, [c |-> c, exc |-> ""]))
    IN [c |-> st.c,
        exc |-> IF st.exc # "" THEN st.exc ELSE "TypeError",
        dot_lines |-> DotLines(nodes, edges)]

(************************* the graph pages, as actions ***********************)
\* stores for the graph: empty tables; the example with author 'euler'
\* (CardDisk1); authors that resolve, that resolve to an equation, and that do
\* not resolve; an equation with no author
GraphDisk0 == [t \in Tables |-> <<SchemaFile>>]
GraphDisk2 ==
    [t \in Tables |->
        IF t = Mathematicians
        THEN <<SchemaFile, File("001_euler.json", TRUE, Euler)>>
        ELSE <<SchemaFile,
               File("010_eulers-identity.json", TRUE, EulersIdentity(PyStr(<<"#", "euler">>))),
               File("002_b.json", TRUE,
                    Eq(2, PyStr(<<"b">>), PyNone, PyStr(<<"#", "equations", "/", "10">>))),
               File("003.json", TRUE,
                    Eq(3, PyNone, PyStr(<<"y">>), PyStr(<<"#", "nobody">>)))>>]
GraphDisk3 ==
    [t \in Tables |->
        IF t = Mathematicians
        THEN <<SchemaFile, File("001_euler.json", TRUE, Euler)>>
        ELSE <<SchemaFile,
               File("010_eulers-identity.json", TRUE,
                    EulersIdentity(PyStr(<<"#", "mathematicians", "/", "1">>))),
               File("003.json", TRUE, Eq(3, PyNone, PyStr(<<"y">>), PyNone))>>]
GraphSnapshots == {GraphDisk0, CardDisk1, GraphDisk2, GraphDisk3}

\* the entities handed to update and the keys handed to remove before a graph
GraphUpdates ==
    {<<Mathematicians, Ent(PyInt(0), PyNone, PyStr(<<"x">>))>>,
     <<Mathematicians, Ent(PyInt(0), PyStr(<<"euler">>), PyStr(<<"y">>))>>,
     <<Mathematicians, Euler>>,
     <<Equations, EulersIdentity(PyStr(<<"#", "euler">>))>>}
GraphRemoveKeys == {PyInt(1), PyInt(0)}

\* node and edge lists handed to render_graph_html besides those of generate
PlainNode == [id |-> <<"n1">>, label |-> <<"x">>]
PlainEdge == [source |-> <<"n1">>, target |-> <<"n2">>, label |-> PyStr(<<"l">>)]
OpenEdge ==
    [source |-> <<"n2">>, target |-> <<"n1">>, ref |-> PyStr(<<>>),
     color |-> "#C0504D", arrowhead |-> "open", style |-> "dashed"]
GraphInputs ==
    {[nodes |-> <<>>, edges |-> <<PlainEdge>>],
     [nodes |-> <<PlainNode>>, edges |-> <<OpenEdge, PlainEdge>>]}

\* the lists generate returns in the current state, when it returns
Generated ==
    IF Generate(cache, disk).exc = ""
    THEN {[nodes |-> Generate(cache, disk).nodes, edges |-> Generate(cache, disk).edges]}
    ELSE {}

\* make_graph.generate(cache)
GenerateGraph ==
    /\ cache' = Generate(cache, disk).c
    /\ last' = [op |-> "generate", arg |-> PyNone,
                ret |-> [exc |-> Generate(cache, disk).exc,
                         nodes |-> Generate(cache, disk).nodes,
                         edges |-> Generate(cache, disk).edges]]
    /\ UNCHANGED <<disk, tables_info>>

\* render_graph_html(nodes, edges, legend=[], data_dir=data_dir)
RenderGraphHtml(nodes, edges) ==
    /\ cache' = RenderGraphHtmlState(cache, disk, nodes, edges).c
    /\ last' = [op |-> "render_graph_html", arg |-> <<nodes, edges>>,
                ret |-> [exc |-> RenderGraphHtmlState(cache, disk, nodes, edges).exc,
                         dot_lines |-> RenderGraphHtmlState(cache, disk, nodes, edges).dot_lines]]
    /\ UNCHANGED <<disk, tables_info>>

InitGraph ==
    /\ cache = <<>>
    /\ disk \in GraphSnapshots
    /\ tables_info = NotComputed
    /\ last = [op |-> "init", arg |-> PyNone, ret |-> PyNone]

NextGraph ==
    \/ \E t \in Tables : Get(t)
    \/ \E u \in GraphUpdates : Update(u[1], u[2])
    \/ \E t \in Tables, key \in GraphRemoveKeys : Remove(t, key)
    \/ GenerateGraph
    \/ \E g \in GraphInputs \cup Generated : RenderGraphHtml(g.nodes, g.edges)

SpecGraph == InitGraph /\ [][NextGraph]_vars

(****************************** claims C16..C19 ******************************)
\* the ids of the nodes of a graph
NodeIds(g) == {g.nodes[i].id : i \in 1..Len(g.nodes)}

\* the author of the equation resolves, through lookup, to a mathematician
AuthorIsMathematician(eq) ==
    /\ IsStr(EntryGet(eq, "author", PyNone))
    /\ LookupRet(cache, disk, eq.author).table = PyStr(Mathematicians)

\* C16: whatever the store holds, generate returns a graph in which the source and
\* the target of every edge are ids of its nodes, and an equation whose author is
\* missing or resolves to no mathematician has its node and no edge.
C16_NoDanglingEdge ==
    last.op = "generate" =>
        /\ last.ret.exc = ""
        /\ \A i \in 1..Len(last.ret.edges) :
               /\ last.ret.edges[i].source \in NodeIds(last.ret)
               /\ last.ret.edges[i].target \in NodeIds(last.ret)
        /\ \A i \in 1..Len(CacheAt(cache, Equations)) :
               ~AuthorIsMathematician(CacheAt(cache, Equations)[i]) =>
                   /\ NodeId(Equations, CacheAt(cache, Equations)[i]) \in NodeIds(last.ret)
                   /\ \A j \in 1..Len(last.ret.edges) :
                          last.ret.edges[j].source # NodeId(Equations, CacheAt(cache, Equations)[i])

\* C17: with Leonhard Euler (id 1, 'euler') as the only mathematician and Euler's
\* Identity (id 10, author 'euler') as the only equation, generate returns exactly
\* one edge, from '#equations/10' to '#mathematicians/1', labelled 'author'.
C17_ExampleEdge ==
    (/\ last.op = "generate"
     /\ CacheAt(cache, Mathematicians) = <<Euler>>
     /\ CacheAt(cache, Equations) = <<EulersIdentity(PyStr(<<"euler">>))>>)
        => /\ last.ret.exc = ""
           /\ Len(last.ret.edges) = 1
           /\ last.ret.edges[1].source = <<"#", "equations", "/", "10">>
           /\ last.ret.edges[1].target = <<"#", "mathematicians", "/", "1">>
           /\ last.ret.edges[1].label = PyStr(<<"author">>)

\* C18: a graph that generate returns has one node per cached mathematician and
\* equation, in that order, with id '#<table>/<id>', and no two of its nodes
\* have the same id.
C18_NodeIdsDistinct ==
    last.op = "generate" /\ last.ret.exc = "" =>
        LET ms == CacheAt(cache, Mathematicians)
            eqs == CacheAt(cache, Equations)
        IN /\ Len(last.ret.nodes) = Len(ms) + Len(eqs)
           /\ \A i \in 1..Len(ms) :
                  last.ret.nodes[i].id = <<"#", "mathematicians", "/">> \o Format(ms[i].id)
           /\ \A i \in 1..Len(eqs) :
                  last.ret.nodes[Len(ms) + i].id = <<"#", "equations", "/">> \o Format(eqs[i].id)
           /\ \A i, j \in 1..Len(last.ret.nodes) :
                  i # j => last.ret.nodes[i].id # last.ret.nodes[j].id

\* line begins with the tokens p
BeginsWith(line, p) == Len(line) >= Len(p) /\ SubSeq(line, 1, Len(p)) = p

\* the statements `"a" -> "b" [...]` among the lines
Arrows(lines, a, b) ==
    {k \in 1..Len(lines) : BeginsWith(lines[k], <<"\"">> \o a \o <<"\" -> \"">> \o b \o <<"\" [">>)}

\* the DOT source splits edge number n (from 0): one label node '__edge__n', one
\* statement source -> '__edge__n' that ends in dir=none, one statement
\* '__edge__n' -> target that does not and that has the edge's arrowhead, and no
\* statement from the source to the target
SplitInTwo(lines, edge, n) ==
    /\ Cardinality({k \in 1..Len(lines) :
                       /\ BeginsWith(lines[k], <<"\"", "__edge__", StrOf(n)>>)
                       /\ lines[k][4] # "\" -> \""}) = 1
    /\ Cardinality(Arrows(lines, edge.source, <<"__edge__", StrOf(n)>>)) = 1
    /\ Cardinality(Arrows(lines, <<"__edge__", StrOf(n)>>, edge.target)) = 1
    /\ \A k \in Arrows(lines, edge.source, <<"__edge__", StrOf(n)>>) :
           lines[k][Len(lines[k])] = ", dir=none];"
    /\ \A k \in Arrows(lines, <<"__edge__", StrOf(n)>>, edge.target) :
           /\ lines[k][Len(lines[k])] = "];"
           /\ "arrowhead" \in DOMAIN edge =>
                  \E m \in 1..Len(lines[k]) : lines[k][m] = "arrowhead=" \o edge.arrowhead
    /\ Arrows(lines, edge.source, edge.target) = {}

\* C19: render_graph_html returns a document whose DOT source has, for every
\* input edge number i, exactly one label node '__edge__i' and exactly the two
\* segments source -> '__edge__i' (dir=none) and '__edge__i' -> target (with the
\* arrowhead), and no statement source -> target.
C19_EdgeSplitInTwo ==
    last.op = "render_graph_html" =>
        /\ last.ret.exc = ""
        /\ \A i \in 1..Len(last.arg[2]) :
               SplitInTwo(last.ret.dot_lines, last.arg[2][i], i - 1)

(***************************** the server (server.py) ************************)
\* f"{id:03}" for the ints of the model
Pad3(n) == IF n < 10 THEN "00" \o StrOf(n) ELSE "0" \o StrOf(n)

\* the text of a str, its tokens put together
RECURSIVE Text(_)
Text(toks) == IF toks = <<>> THEN "" ELSE Head(toks) \o Text(Tail(toks))

\* make_filename(entry): '<id:03>_<short_name>.json', or '<id:03>.json' when the
\* short_name is missing or empty; f"{id:03}" raises TypeError for an id that is None
make_filename(entry) ==
    IF entry.id.k # "int" THEN [exc |-> "TypeError", name |-> ""]
    ELSE IF Truthy(entry.short_name)
         THEN [exc |-> "", name |-> Pad3(entry.id.i) \o "_" \o Text(entry.short_name.s) \o ".json"]
         ELSE [exc |-> "", name |-> Pad3(entry.id.i) \o ".json"]

\* a request body: json says whether the content type is JSON, parses whether the
\* body is JSON text, entry is the parsed dict
Body(json, parses, entry) == [json |-> json, parses |-> parses, entry |-> entry]
NotJson == Body(FALSE, FALSE, PyNone)
BadJson == Body(TRUE, FALSE, PyNone)
JsonBody(entry) == Body(TRUE, TRUE, entry)

\* a response: the status, whether the body is JSON, and the keys of the JSON body
Response(status, json, keys) == [status |-> status, json |-> json, keys |-> keys]
\* an exception that leaves the handler: the 500 page of the framework
ServerError == Response(500, FALSE, {})
\* the BadRequest request.get_json() raises for a body that does not parse: a 400 page
BadRequest == Response(400, FALSE, {})

\* the files of a table directory, none when there is no such directory
Dir(d, t) == IF t \in DOMAIN d THEN d[t] ELSE <<>>
\* file_path.exists()
HasFile(files, name) == \E i \in 1..Len(files) : files[i].name = name

\* open(file_path, 'w') and json.dump(entry, f): a file of that name is rewritten
\* where it is, a new file enters the listing at place pos
WriteFile(files, name, entry, pos) ==
    IF HasFile(files, name)
    THEN [i \in 1..Len(files) |->
             IF files[i].name = name THEN File(name, TRUE, entry) ELSE files[i]]
    ELSE SubSeq(files, 1, pos - 1) \o <<File(name, TRUE, entry)>> \o SubSeq(files, pos, Len(files))

\* file_path.unlink()
Unlink(files, name) == SelectSeq(files, LAMBDA f : f.name # name)

\* the data directory with the files of table t set; table_dir.mkdir makes the directory
DiskPut(d, t, files) == [u \in DOMAIN d \cup {t} |-> IF u = t THEN files ELSE d[u]]

\* what a handler leaves: the cache, the data directory and the response
Served(c, d, resp) == [c |-> c, d |-> d, resp |-> resp]

\* save_entry(table) with the new file entering the listing at place pos
SaveEntryState(c, d, table, body, pos) ==
    IF ~body.json THEN Served(c, d, Response(400, TRUE, {"error"}))
    ELSE IF ~body.parses THEN Served(c, d, BadRequest)
    ELSE IF make_filename(body.entry).exc # "" THEN Served(c, d, ServerError)
    ELSE LET filename == make_filename(body.entry).name
             d1 == DiskPut(d, table, WriteFile(Dir(d, table), filename, body.entry, pos))
             c1 == GetCache(c, d1, table)
         IN Served(CachePut(c1, table, UpdateEntries(CacheAt(c1, table), body.entry)), d1,
                   Response(200, TRUE, {"success", "filename"}))

\* cache.lookup_by_id(table, entry_id): TableEntriesCache has no such attribute
lookup_by_id(c, d, table, entry_id) == RetRaise("AttributeError")

\* delete_entry(table, entry_id): int(entry_id) raises ValueError for a text that
\* is no number
DeleteEntryState(c, d, table, entry_id) ==
    IF ~IsDigit(entry_id) THEN Served(c, d, ServerError)
    ELSE LET r == lookup_by_id(c, d, table, PyInt(IntOf(entry_id)))
         IN IF r.exc # "" THEN Served(c, d, ServerError)
            ELSE IF r.entry = PyNone THEN Served(c, d, Response(404, TRUE, {"error"}))
            ELSE IF make_filename(r.entry).exc # "" THEN Served(c, d, ServerError)
            ELSE IF HasFile(Dir(d, table), make_filename(r.entry).name)
                 THEN LET c1 == GetCache(c, d, table)
                      IN Served(CachePut(c1, table,
                                         RemoveEntries(CacheAt(c1, table), PyInt(IntOf(entry_id)))),
                                DiskPut(d, table, Unlink(Dir(d, table), make_filename(r.entry).name)),
                                Response(200, TRUE, {"success", "deleted"}))
                 ELSE Served(c, d, Response(404, TRUE, {"error"}))

(**************************** the server, as actions *************************)
\* data directories of the server: cache and files agree once a table is loaded;
\* no directory for equations; a malformed file before a well-formed one
ServerDisk1 ==
    [t \in {Mathematicians} |->
        <<SchemaFile, File("001_a.json", TRUE, Ent(PyInt(1), PyStr(<<"a">>), PyStr(<<"x">>)))>>]
ServerDisk2 ==
    [t \in Tables |->
        IF t = Mathematicians
        THEN <<BadFile, SchemaFile>>
        ELSE <<BadFile, File("002.json", TRUE, Ent(PyInt(2), PyNone, PyStr(<<"y">>))), SchemaFile>>]
ServerSnapshots == {ServerDisk1, ServerDisk2}

\* the bodies posted to save_entry and the ids in the path of delete_entry
Bodies ==
    {NotJson, BadJson,
     JsonBody(Ent(PyNone, PyStr(<<"a">>), PyStr(<<"x">>))),
     JsonBody(Ent(PyInt(1), PyStr(<<"a">>), PyStr(<<"y">>))),
     JsonBody(Ent(PyInt(1), PyStr(<<"b">>), PyStr(<<"x">>))),
     JsonBody(Ent(PyInt(0), PyNone, PyStr(<<"x">>)))}
DeleteIds == {<<"1">>, <<"2">>, <<"a">>}

\* the entity files of the data directory, all tables together
EntityFiles(d) ==
    UNION {{<<t, i>> : i \in {n \in 1..Len(d[t]) : d[t][n].ok /\ d[t][n].name # "schema.json"}} :
              t \in DOMAIN d}

\* POST /api/save_entry/<t>
SaveEntry(t, body) ==
    \E pos \in 1..(Len(Dir(disk, t)) + 1) :
        LET s == SaveEntryState(cache, disk, t, body, pos)
        IN /\ Len(Dir(s.d, t)) <= Len(Dir(disk, t)) \/ Cardinality(EntityFiles(disk)) < MaxEntries
           /\ Total(s.c) <= Total(GetCache(cache, disk, t)) \/ Total(s.c) <= MaxEntries
           /\ cache' = s.c
           /\ disk' = s.d
           /\ last' = [op |-> "save_entry", arg |-> <<t, body>>, ret |-> s.resp]
           /\ UNCHANGED tables_info

\* DELETE /api/delete_entry/<t>/<entry_id>
DeleteEntry(t, entry_id) ==
    LET s == DeleteEntryState(cache, disk, t, entry_id)
    IN /\ cache' = s.c
       /\ disk' = s.d
       /\ last' = [op |-> "delete_entry", arg |-> <<t, entry_id>>, ret |-> s.resp]
       /\ UNCHANGED tables_info

InitServer ==
    /\ cache = <<>>
    /\ disk \in ServerSnapshots
    /\ tables_info = NotComputed
    /\ last = [op |-> "init", arg |-> PyNone, ret |-> PyNone]

NextServer ==
    \/ \E t \in RefTables : Get(t)
    \/ \E t \in Tables, body \in Bodies : SaveEntry(t, body)
    \/ \E t \in Tables, entry_id \in DeleteIds : DeleteEntry(t, entry_id)

SpecServer == InitServer /\ [][NextServer]_vars

(****************************** claims C21..C23 ******************************)
\* the places, in the directory of table t, of the well-formed entity files
WellFormed(d, t) ==
    {i \in 1..Len(Dir(d, t)) :
        /\ Dir(d, t)[i].name # "schema.json"
        /\ Dir(d, t)[i].ok
        /\ Dir(d, t)[i].entry # Ent(PyNone, PyNone, PyNone)}

\* l holds the entity of every well-formed file of table t once, and nothing else
LoadedExactly(d, t, l) ==
    /\ t \notin DOMAIN d => l = <<>>
    /\ Len(l) = Cardinality(WellFormed(d, t))
    /\ \E f \in [1..Len(l) -> WellFormed(d, t)] :
           /\ \A i, j \in 1..Len(l) : i # j => f[i] # f[j]
           /\ \A i \in 1..Len(l) : l[i] = Dir(d, t)[f[i]].entry

\* C21: a call that loads a table gets the empty list when the table has no
\* directory, and otherwise exactly the entities of the well-formed files: a
\* malformed file is skipped, every other record is kept, and schema.json is
\* never an entity.
C21_LoadSkipsBadFiles ==
    [][\A t \in RefTables :
          (/\ last'.op \in {"get", "lookup", "maybe_linked"}
           /\ ~InCache(cache, t)
           /\ InCache(cache', t))
              => LoadedExactly(disk, t, CacheAt(cache', t))]_vars

\* equations was loaded from a directory whose malformed file comes before a
\* well-formed one, and the table without a directory was loaded as empty
C21_Witness ==
    /\ last.op = "get"
    /\ last.arg = <<Equations>>
    /\ disk = RefDisk2
    /\ CacheAt(cache, Equations) = <<Ent(PyInt(0), PyStr(<<"b">>), PyStr(<<"x">>))>>
    /\ InCache(cache, NoSuch)
    /\ CacheAt(cache, NoSuch) = <<>>

\* the response is a JSON body with an 'error' message and the given status
IsError(resp, statuses) == resp.status \in statuses /\ resp.json /\ "error" \in resp.keys

\* C22: DELETE /api/delete_entry/<table>/<id> answers 404 with an error body and
\* changes neither cache nor disk when the table holds no entity of that id; when
\* it holds one it answers {success, deleted}, and afterwards no file of the
\* table holds that entity and the cached list does not contain it.
C22_DeleteEntryContract ==
    [][\A t \in Tables, entry_id \in DeleteIds :
          (last'.op = "delete_entry" /\ last'.arg = <<t, entry_id>>) =>
              IF IsDigit(entry_id)
                    /\ \E i \in 1..Len(Listed(t)) : Listed(t)[i].id = PyInt(IntOf(entry_id))
              THEN /\ last'.ret.status = 200
                   /\ last'.ret.json
                   /\ last'.ret.keys = {"success", "deleted"}
                   /\ \A i \in 1..Len(Dir(disk', t)) :
                          Dir(disk', t)[i].ok => Dir(disk', t)[i].entry.id # PyInt(IntOf(entry_id))
                   /\ \A i \in 1..Len(ListedAfter(t)) :
                          ListedAfter(t)[i].id # PyInt(IntOf(entry_id))
              ELSE /\ IsError(last'.ret, {404})
                   /\ disk' = disk
                   /\ \A u \in Tables : InCache(cache, u) =>
                          InCache(cache', u) /\ CacheAt(cache', u) = CacheAt(cache, u)]_vars

\* C23: POST /api/save_entry/<table> with a body that is no JSON, or with a JSON
\* body that has no id, answers 4xx with a JSON body that has an 'error'
\* message, writes no file and leaves the cache as it was.
C23_SaveEntryRejects ==
    [][\A t \in Tables, body \in Bodies :
          (/\ last'.op = "save_entry"
           /\ last'.arg = <<t, body>>
           /\ (~body.json \/ ~body.parses \/ body.entry.id = PyNone))
              => /\ IsError(last'.ret, 400..499)
                 /\ disk' = disk
                 /\ cache' = cache]_vars

(********************* the static build (generate_website.py) ****************)
\* script_dir / "data" and script_dir / "docs", as directories of the file system
DataDir == <<"data">>
DocsDir == <<"docs">>

\* table_path / f"render_{table_name}.py"
RenderFile(t) == "render_" \o Text(t) \o ".py"
\* a render module: loads says whether exec_module succeeds, has_page whether it
\* defines render_table_page, raises whether render_table_page raises
Module(t, loads, has_page, raises) ==
    File(RenderFile(t), loads, [has_page |-> has_page, raises |-> raises])

\* the directories under data_dir, and what data_dir.iterdir() lists: these
\* directories and the plain files of data_dir
TableDirs(d) == DOMAIN d \ {DataDir, DocsDir}
Listing(d) ==
    {[dir |-> TRUE, name |-> t] : t \in TableDirs(d)}
        \cup {[dir |-> FALSE, name |-> <<d[DataDir][i].name>>] : i \in 1..Len(d[DataDir])}

\* table_path.glob("*.json"): every file of the directory but the render module
JsonFiles(d, t) == SelectSeq(d[t], LAMBDA f : f.name # RenderFile(t))

\* get_table_data(table_path)[0]: the rows of the table
TableRows(d, t) == LoadFiles(JsonFiles(d, t), 1)

\* load_render_module: the module, or None when the file is missing or fails to load
load_render_module(d, t) ==
    IF \E i \in 1..Len(d[t]) : d[t][i].name = RenderFile(t) /\ d[t][i].ok
    THEN d[t][CHOOSE i \in 1..Len(d[t]) : d[t][i].name = RenderFile(t)].entry
    ELSE PyNone

\* a file written by the build goes last in the listing of its directory
WriteLast(files, name) == WriteFile(files, name, "new", Len(files) + 1)

\* what generate_table_html leaves: its result, the file system, and the
\* exception that leaves it
Generation(ok, d, exc) == [ok |-> ok, d |-> d, exc |-> exc]

\* the try block of generate_table_html: render_table_page, mkdir of the output
\* directory of the table (FileExistsError when a plain file has that name) and
\* the write of its index.html
RenderAndWrite(d, t) ==
    IF load_render_module(d, t).raises THEN Generation(FALSE, d, "Exception")
    ELSE IF HasFile(Dir(d, DocsDir), Text(t)) THEN Generation(FALSE, d, "FileExistsError")
    ELSE Generation(TRUE,
                    DiskPut(d, DocsDir, WriteLast(Dir(d, DocsDir), Text(t) \o "/index.html")),
                    "")

\* (mutant of generate_table_html) no try around rendering and writing
generate_table_html_uncaught(d, t) ==
    IF TableRows(d, t) = <<>> THEN Generation(FALSE, d, "")
    ELSE IF load_render_module(d, t) = PyNone THEN Generation(FALSE, d, "")
    ELSE IF ~load_render_module(d, t).has_page THEN Generation(FALSE, d, "")
    ELSE RenderAndWrite(d, t)

\* generate_table_html(table_name, table_path, output_dir)
generate_table_html(d, t) ==
    IF TableRows(d, t) = <<>> THEN Generation(FALSE, d, "")
    ELSE IF load_render_module(d, t) = PyNone THEN Generation(FALSE, d, "")
    ELSE IF ~load_render_module(d, t).has_page THEN Generation(FALSE, d, "")
    ELSE IF RenderAndWrite(d, t).exc # "" THEN Generation(FALSE, d, "")
    ELSE RenderAndWrite(d, t)

\* the process main(): pc is where it stands, i the place in the listing,
\* successful_tables its counter, exit the exit status once it has ended
Process(pc, i, successful_tables, exit) ==
    [pc |-> pc, i |-> i, successful_tables |-> successful_tables, exit |-> exit]

\* generate_main_index and generate_css
WriteMainPages(files) == WriteLast(WriteLast(files, "index.html"), "styles.css")

\* (mutant of MainEnd) the build ends well whatever the counter says
MainEndAlwaysZero(d, successful_tables) ==
    [d |-> DiskPut(d, DocsDir, WriteMainPages(Dir(d, DocsDir))), exit |-> 0]

\* the end of main: sys.exit(1) when no table succeeded, else the main index and
\* the stylesheet are written and main returns
MainEnd(d, successful_tables) ==
    IF successful_tables = 0 THEN [d |-> d, exit |-> 1]
    ELSE [d |-> DiskPut(d, DocsDir, WriteMainPages(Dir(d, DocsDir))), exit |-> 0]

(************************** the build, as actions ****************************)
BuildRow == File("001_a.json", TRUE, Ent(PyInt(1), PyStr(<<"a">>), PyStr(<<"x">>)))
\* the states of a table directory: complete; with a malformed file and no
\* schema; without rows; without render module; with a module that fails to
\* load, that has no render_table_page, whose render_table_page raises
TableStates(t) ==
    {<<SchemaFile, BuildRow, Module(t, TRUE, TRUE, FALSE)>>,
     <<BadFile, BuildRow, Module(t, TRUE, TRUE, FALSE)>>,
     <<SchemaFile, BadFile, Module(t, TRUE, TRUE, FALSE)>>,
     <<SchemaFile, BuildRow>>,
     <<SchemaFile, BuildRow, Module(t, FALSE, TRUE, FALSE)>>,
     <<SchemaFile, BuildRow, Module(t, TRUE, FALSE, FALSE)>>,
     <<SchemaFile, BuildRow, Module(t, TRUE, TRUE, TRUE)>>}
\* the states of the output directory: empty; left by an earlier build; with a
\* plain file where the directory of equations should go
DocsStates ==
    {<<>>,
     <<File("index.html", TRUE, "old"), File("equations/index.html", TRUE, "old")>>,
     <<File("equations", TRUE, "old")>>}
MainJson == File("main.json", TRUE, Ent(PyNone, PyNone, PyNone))
BuildSnapshots ==
    {[u \in {DataDir, DocsDir, Mathematicians, Equations} |->
         IF u = DataDir THEN <<MainJson>>
         ELSE IF u = DocsDir THEN docs
         ELSE IF u = Mathematicians THEN m ELSE e] :
        docs \in DocsStates, m \in TableStates(Mathematicians), e \in TableStates(Equations)}
      \cup {[u \in {DataDir, Mathematicians} |-> IF u = DataDir THEN <<>> ELSE m] :
               m \in TableStates(Mathematicians)}
      \cup {[u \in {DataDir} |-> <<MainJson>>], [u \in {DocsDir} |-> <<>>]}

\* main() up to the loop: output_dir.mkdir(exist_ok=True), then sys.exit(1) when
\* there is no data directory
MainStart ==
    /\ last.op = "init"
    /\ disk' = IF DocsDir \in DOMAIN disk THEN disk ELSE DiskPut(disk, DocsDir, <<>>)
    /\ \E order \in (IF DataDir \in DOMAIN disk THEN Orders(Listing(disk)) ELSE {<<>>}) :
           last' = [op |-> "main", arg |-> order,
                    ret |-> IF DataDir \in DOMAIN disk
                            THEN Process("loop", 1, 0, PyNone)
                            ELSE Process("done", 1, 0, PyInt(1))]
    /\ tables_info' = <<>>
    /\ UNCHANGED cache

\* one turn of the loop over data_dir.iterdir(); an exception that leaves
\* generate_table_html ends the process with status 1
MainTable ==
    /\ last.op = "main"
    /\ last.ret.pc = "loop"
    /\ last.ret.i <= Len(last.arg)
    /\ LET e == last.arg[last.ret.i]
           g == generate_table_html(disk, e.name)
       IN IF ~e.dir
          THEN /\ last' = [last EXCEPT !.ret.i = @ + 1]
               /\ UNCHANGED <<disk, tables_info>>
          ELSE /\ tables_info' = Append(tables_info,
                                        [name |-> e.name, count |-> Len(TableRows(disk, e.name))])
               /\ disk' = g.d
               /\ last' = IF g.exc # ""
                          THEN [last EXCEPT !.ret.pc = "done", !.ret.exit = PyInt(1)]
                          ELSE [last EXCEPT !.ret.i = @ + 1,
                                            !.ret.successful_tables = IF g.ok THEN @ + 1 ELSE @]
    /\ UNCHANGED cache

\* main() after the loop
MainFinish ==
    /\ last.op = "main"
    /\ last.ret.pc = "loop"
    /\ last.ret.i > Len(last.arg)
    /\ disk' = MainEnd(disk, last.ret.successful_tables).d
    /\ last' = [last EXCEPT !.ret.pc = "done",
                            !.ret.exit = PyInt(MainEnd(disk, last.ret.successful_tables).exit)]
    /\ UNCHANGED <<cache, tables_info>>

InitBuild ==
    /\ cache = <<>>
    /\ disk \in BuildSnapshots
    /\ tables_info = NotComputed
    /\ last = [op |-> "init", arg |-> PyNone, ret |-> PyNone]

NextBuild ==
    \/ MainStart
    \/ MainTable
    \/ MainFinish

SpecBuild == InitBuild /\ [][NextBuild]_vars

(****************************** claims C24, C25 ******************************)
\* this run of the build wrote the file `name` of the output directory
Written(name) ==
    \E i \in 1..Len(Dir(disk, DocsDir)) :
        Dir(disk, DocsDir)[i].name = name /\ Dir(disk, DocsDir)[i].entry = "new"

\* the tables whose page this run wrote
Generated_tables == {t \in TableDirs(disk) : Written(Text(t) \o "/index.html")}

\* main() has ended
Ended == last.op = "main" /\ last.ret.pc = "done"

\* C24: when main ends, its status is 1 and it wrote neither index.html nor
\* styles.css if there is no data directory or no table page was generated;
\* otherwise its status is 0, it wrote index.html and styles.css, and its
\* counter of successful tables is the number of table pages it wrote.
C24_ExitStatusByTables ==
    Ended =>
        IF DataDir \notin DOMAIN disk \/ Generated_tables = {}
        THEN /\ last.ret.exit = PyInt(1)
             /\ ~Written("index.html")
             /\ ~Written("styles.css")
        ELSE /\ last.ret.exit = PyInt(0)
             /\ Written("index.html")
             /\ Written("styles.css")
             /\ last.ret.successful_tables = Cardinality(Generated_tables)

\* a build of two tables that ended well with one page, over an older index.html
C24_Witness ==
    /\ Ended
    /\ last.ret.exit = PyInt(0)
    /\ Cardinality(TableDirs(disk)) = 2
    /\ Cardinality(Generated_tables) = 1
    /\ Written("index.html")

\* table t can be generated: it has rows, its render module loads and has a
\* render_table_page that returns, and its output directory can be made
Healthy(t) ==
    /\ \E i \in 1..Len(disk[t]) :
           /\ disk[t][i].ok
           /\ disk[t][i].name \notin {"schema.json", RenderFile(t)}
    /\ \E i \in 1..Len(disk[t]) :
           /\ disk[t][i].name = RenderFile(t)
           /\ disk[t][i].ok
           /\ disk[t][i].entry.has_page
           /\ ~disk[t][i].entry.raises
    /\ \A i \in 1..Len(Dir(disk, DocsDir)) : Dir(disk, DocsDir)[i].name # Text(t)

\* C25: a build over a data directory ends only after the loop has gone through
\* every table directory, whatever failed on the way, and then the page of
\* every table that can be generated has been written and every table directory
\* is in tables_info.
C25_FailureDoesNotStopBuild ==
    (Ended /\ DataDir \in DOMAIN disk) =>
        /\ last.ret.i = Len(last.arg) + 1
        /\ {tables_info[i].name : i \in 1..Len(tables_info)} = TableDirs(disk)
        /\ \A t \in TableDirs(disk) : Healthy(t) <=> t \in Generated_tables

\* a table whose render_table_page raises, or whose output directory cannot be
\* made, came before a table that was generated
C25_Witness ==
    /\ Ended
    /\ \E j, k \in 1..Len(last.arg) :
           /\ j < k
           /\ last.arg[j].dir
           /\ last.arg[k].dir
           /\ ~Healthy(last.arg[j].name)
           /\ TableRows(disk, last.arg[j].name) # <<>>
           /\ load_render_module(disk, last.arg[j].name) # PyNone
           /\ load_render_module(disk, last.arg[j].name).has_page
           /\ last.arg[k].name \in Generated_tables

(****************************** claims C26, C27 ******************************)
\* no two entities of the list have the same id, or the same short_name
UniqueIdentity(l) ==
    \A i, j \in 1..Len(l) :
        i # j => /\ l[i].id # l[j].id
                 /\ l[i].short_name # PyNone => l[i].short_name # l[j].short_name

\* C26: the cached list of a table, loaded from files with pairwise distinct ids
\* and short_names, has pairwise distinct ids and pairwise distinct short_names
\* after every sequence of update and remove calls.
C26_IdentityUnique ==
    \A t \in Tables : InCache(cache, t) => UniqueIdentity(CacheAt(cache, t))

\* the entities of a list, as a set
EntitySet(l) == {l[i] : i \in 1..Len(l)}

\* C27: under save_entry and delete_entry requests, the entities stored in the
\* files of a cached table are the entities of its cached list.
C27_CacheMatchesDisk ==
    \A t \in Tables :
        InCache(cache, t) => EntitySet(LoadEntries(disk, t)) = EntitySet(CacheAt(cache, t))

(****************************** claims C28..C30 ******************************)
\* the key of a reference string: the text after '#', and after the table if any
KeyOf(v) == IF HasSlash(Tail(v.s)) THEN SplitTail(Tail(v.s)) ELSE Tail(v.s)

\* the text is a hyperlink
IsLink(text) == IsStr(text) /\ Len(text.s) > 0 /\ text.s[1] = "<a href=\"../"

\* C28: for every reference string and every store state, maybe_linked renders a
\* hyperlink exactly when lookup resolves the reference, and then the link goes to
\* the table and entity lookup returns.
C28_ResolversAgree ==
    \A v \in Values :
        IsStr(v) =>
            \A order \in ListingOrders(tables_info, disk, v) :
                LET r == LookupRet(cache, disk, v)
                    m == MaybeLinkedRet(cache, tables_info, disk, order, v)
                IN IF r.entry # PyNone
                   THEN m = Link(r.table.s, KeyOf(v), r.entry)
                   ELSE ~IsLink(m)

(*********************** get_next_id (render_utils.py) ***********************)
\* the loop of get_next_id: int(entry.get('id', 0)) raises for None and the
\* entry is passed over
RECURSIVE NextIdLoop(_, _, _)
NextIdLoop(entries, i, max_id) ==
    IF i > Len(entries) THEN max_id
    ELSE IF entries[i].id.k = "int" /\ entries[i].id.i > max_id
         THEN NextIdLoop(entries, i + 1, entries[i].id.i)
         ELSE NextIdLoop(entries, i + 1, max_id)

\* (mutant of NextIdText) the largest id itself is proposed
NextIdTextSame(max_id) == PyStr(<<StrOf(max_id)>>)

\* str(max_id + 1)
NextIdText(max_id) == PyStr(<<StrOf(max_id + 1)>>)

\* get_next_id(table_name, data_dir): the text returned
get_next_id(c, d, table_name) ==
    NextIdText(NextIdLoop(CacheAt(GetCache(c, d, table_name), table_name), 1, 0))

\* the add form shows the proposed id in a number input, and formToJSON posts
\* Number(el.value)
FormNumber(text) == PyInt(IntOf(text.s))

\* the entities and keys handed to update and remove around get_next_id
IdUpdates ==
    {Ent(PyInt(2), PyNone, PyStr(<<"x">>)),
     Ent(PyInt(0), PyNone, PyStr(<<"x">>)),
     Ent(PyInt(1), PyStr(<<"a">>), PyStr(<<"y">>)),
     Ent(PyNone, PyStr(<<"b">>), PyStr(<<"x">>))}
IdRemoveKeys == {PyInt(1), PyInt(2)}

\* get_next_id(t, data_dir)
GetNextId(t) ==
    /\ cache' = GetCache(cache, disk, t)
    /\ last' = [op |-> "get_next_id", arg |-> <<t>>, ret |-> get_next_id(cache, disk, t)]
    /\ UNCHANGED <<disk, tables_info>>

\* the entry of the add form is saved: update(t, e) with the proposed id
AddEntry(t, short_name) ==
    LET e == Ent(FormNumber(get_next_id(cache, disk, t)), short_name, PyStr(<<"new">>))
    IN /\ e.id.i <= MaxEntries + 1
       /\ Update(t, e)

InitIds ==
    /\ cache = <<>>
    /\ disk \in {DiskA, RefDisk1}
    /\ tables_info = NotComputed
    /\ last = [op |-> "init", arg |-> PyNone, ret |-> PyNone]

NextIds ==
    \/ \E t \in Tables : Get(t)
    \/ \E t \in Tables, e \in IdUpdates : Update(t, e)
    \/ \E t \in Tables, key \in IdRemoveKeys : Remove(t, key)
    \/ \E t \in Tables : GetNextId(t)
    \/ \E t \in Tables, short_name \in ShortNames : AddEntry(t, short_name)

SpecIds == InitIds /\ [][NextIds]_vars

\* C29: in every store state the id get_next_id proposes for a table is greater
\* than the id of every entity of the table, and update with an entity of that
\* id, whatever its short_name, appends it and leaves the listed entities alone.
C29_NextIdFresh ==
    \A t \in Tables :
        LET proposed == FormNumber(get_next_id(cache, disk, t))
        IN /\ \A i \in 1..Len(Listed(t)) :
                  Listed(t)[i].id.k = "int" => proposed.i > Listed(t)[i].id.i
           /\ \A short_name \in ShortNames :
                  UpdateEntries(Listed(t), Ent(proposed, short_name, PyStr(<<"new">>)))
                      = Append(Listed(t), Ent(proposed, short_name, PyStr(<<"new">>)))

\* an entry of short_name 'a' was added under the proposed id 2 to the list that
\* holds the entity of id 1 and short_name 'a', and went after it
C29_Witness ==
    /\ last.op = "update"
    /\ last.arg[2] = Ent(PyInt(2), PyStr(<<"a">>), PyStr(<<"new">>))
    /\ CacheAt(cache, last.arg[1])
           = <<Ent(PyInt(1), PyStr(<<"a">>), PyStr(<<"x">>)), last.arg[2]>>

(********************************* claim C30 *********************************)
\* the equations whose author field lookup resolves to the mathematician b
ResolvingTo(b) ==
    SelectSeq(CacheAt(cache, Equations),
              LAMBDA a : LookupRet(cache, disk, EntryGet(a, "author", PyNone))
                             = Ret(PyStr(Mathematicians), b))

\* C30: the cell of the reference column (equations, author) on the card of a
\* mathematician b lists exactly the equations whose author field lookup resolves
\* to b: each equation resolving to b is listed and each listed one resolves to b.
C30_ForwardReverseConsistent ==
    Rendered(Schema(<<AliveCol, EquationsCol>>)) /\ last.arg[1] = Mathematicians =>
        last.ret.content[2] =
            IF ResolvingTo(last.arg[3]) = <<>>
            THEN <<"<p><strong>", "equations", ":</strong> ", "<em>None</em>", "</p>">>
            ELSE <<"<p><strong>", "equations", ":</strong>", "<ul class='fields-list'>">>
                     \o RefItems(Equations, ResolvingTo(last.arg[3]), 1)
                     \o <<"</ul>", "</p>">>

====
